---- MODULE Spec2Model ----
(***************************************************************************)
(* The flexible patch engine of code-mcp (src/src/code_mcp/edit_utils.py): *)
(* RelativeIndenter, the strategy cascade flexible_search_and_replace and  *)
(* its strategies, and the unified-diff applier apply_unified_diff.        *)
(*                                                                         *)
(* A text is a sequence of characters, each character a string.  "<-"      *)
(* stands for the one code point U+2190 and "U+10FFFF", "U+10FFFE" for     *)
(* the code points of that number.  The characters that occur are those    *)
(* of the input alphabets below; of Python's line boundaries only \n and   *)
(* \r occur, and of its whitespace only space, \t, \n and \r.              *)
(***************************************************************************)
EXTENDS Integers, Sequences, FiniteSets, TLC

\* one call of make_absolute(make_relative(t)) on a RelativeIndenter
VARIABLES ri_text, ri_marker, ri_rel, ri_abs, ri_pc

\* one call of flexible_search_and_replace
VARIABLES search_text, replace_text, original_text, git_result,
          strategy, tried, sub, sub_tried, result, pc

\* one call of apply_unified_diff
VARIABLES original_content, diff_lines, result_lines, current_line,
          hunk_lines, hunk_pos, hunks_done, current_orig_line, line_offset,
          diff_pc, diff_result

\* one direct call of a function of the package: its name, its arguments, what
\* it returns
VARIABLES fn, args, ret, call_pc

\* one call of git_cherry_pick_strategy: where it stands, the state of the
\* directory of tempfile.mkdtemp, and how control enters the finally clause
VARIABLES git_pc, temp_dir, pending

\* the filesystem the server works on, and the file operations of one tool call
VARIABLES files, dirs, io_log

\* the remote bridge: the token it was started with, the code-mcp
\* subprocess, the requests queued for it, the requests written to its stdin,
\* and the answers given to the HTTP requests
VARIABLES auth_token, process, request_queue, forwarded, responses

riVars == <<ri_text, ri_marker, ri_rel, ri_abs, ri_pc>>
casVars == <<search_text, replace_text, original_text, git_result,
             strategy, tried, sub, sub_tried, result, pc>>
difVars == <<original_content, diff_lines, result_lines, current_line,
             hunk_lines, hunk_pos, hunks_done, current_orig_line, line_offset,
             diff_pc, diff_result>>
callVars == <<fn, args, ret, call_pc>>
gitVars == <<git_pc, temp_dir, pending>>
fsVars == <<files, dirs, io_log>>
bridgeVars == <<auth_token, process, request_queue, forwarded, responses>>
\* the variables of the machines other than the three above
extVars == <<callVars, gitVars, fsVars, bridgeVars>>
vars == <<riVars, casVars, difVars, extVars>>

NL == "\n"
CR == "\r"
SP == " "
TAB == "\t"

Min(a, b) == IF a < b THEN a ELSE b
Max(a, b) == IF a > b THEN a ELSE b

(***************************************************************************)
(* Python's str operations, as edit_utils.py uses them.                    *)
(***************************************************************************)

\* s[:n] for n >= 0
Take(s, n) == SubSeq(s, 1, Min(n, Len(s)))

\* s[n:] for n >= 0
Drop(s, n) == SubSeq(s, Min(n, Len(s)) + 1, Len(s))

\* the characters of a text, set(text)
Chars(s) == {s[k] : k \in 1..Len(s)}

\* c * n
Repeat(c, n) == [k \in 1..n |-> c]

\* str.isspace for one character
IsSpace(c) == c \in {SP, TAB, NL, CR}

\* a line boundary of str.splitlines
IsLineBreak(c) == c \in {NL, CR}

\* t occurs in s at the 1-based position p
OccursAt(t, s, p) ==
    /\ p >= 1
    /\ p + Len(t) - 1 <= Len(s)
    /\ \A k \in 1..Len(t) : s[p + k - 1] = t[k]

\* t in s
Contains(t, s) == \E p \in 1..(Len(s) - Len(t) + 1) : OccursAt(t, s, p)

\* s.find(t, from - 1) + 1: the first position >= from where t occurs, 0 when none
Find(t, s, from) ==
    LET ps == {p \in from..(Len(s) - Len(t) + 1) : OccursAt(t, s, p)}
    IN IF ps = {} THEN 0 ELSE CHOOSE p \in ps : \A q \in ps : p <= q

\* s.startswith(c) for a one-character c
StartsWith(s, c) == Len(s) >= 1 /\ s[1] = c

RECURSIVE str_lstrip(_)
\* s.lstrip()
str_lstrip(s) ==
    IF s # <<>> /\ IsSpace(Head(s)) THEN str_lstrip(Tail(s)) ELSE s

RECURSIVE str_rstrip(_)
\* s.rstrip()
str_rstrip(s) ==
    IF s # <<>> /\ IsSpace(s[Len(s)]) THEN str_rstrip(Take(s, Len(s) - 1)) ELSE s

\* s.strip()
str_strip(s) == str_lstrip(str_rstrip(s))

RECURSIVE lstrip_chars(_, _)
\* s.lstrip(cs) for a set cs of characters
lstrip_chars(s, cs) ==
    IF s # <<>> /\ Head(s) \in cs THEN lstrip_chars(Tail(s), cs) ELSE s

RECURSIVE rstrip_chars(_, _)
\* s.rstrip(cs) for a set cs of characters
rstrip_chars(s, cs) ==
    IF s # <<>> /\ s[Len(s)] \in cs
    THEN rstrip_chars(Take(s, Len(s) - 1), cs) ELSE s

\* s.strip(cs)
strip_chars(s, cs) == lstrip_chars(rstrip_chars(s, cs), cs)

RECURSIVE splitlines_keepends(_)
\* s.splitlines(keepends=True): \r\n is one boundary
splitlines_keepends(s) ==
    LET bs == {p \in 1..Len(s) : IsLineBreak(s[p])}
    IN IF s = <<>> THEN <<>>
       ELSE IF bs = {} THEN <<s>>
       ELSE LET q == CHOOSE p \in bs : \A r \in bs : p <= r
                e == IF s[q] = CR /\ q < Len(s) /\ s[q + 1] = NL
                     THEN q + 1 ELSE q
            IN <<Take(s, e)>> \o splitlines_keepends(Drop(s, e))

\* a line of splitlines(keepends=True) without its boundary
DropLineEnd(line) ==
    IF line = <<>> \/ ~IsLineBreak(line[Len(line)]) THEN line
    ELSE IF Len(line) >= 2 /\ line[Len(line)] = NL /\ line[Len(line) - 1] = CR
    THEN Take(line, Len(line) - 2)
    ELSE Take(line, Len(line) - 1)

\* s.splitlines()
splitlines(s) ==
    LET ls == splitlines_keepends(s)
    IN [k \in 1..Len(ls) |-> DropLineEnd(ls[k])]

RECURSIVE str_join(_, _)
\* sep.join(parts)
str_join(sep, parts) ==
    IF parts = <<>> THEN <<>>
    ELSE IF Len(parts) = 1 THEN parts[1]
    ELSE parts[1] \o sep \o str_join(sep, Tail(parts))

RECURSIVE Concat(_)
\* "".join(parts)
Concat(parts) ==
    IF parts = <<>> THEN <<>> ELSE Head(parts) \o Concat(Tail(parts))

RECURSIVE str_interleave(_, _, _)
\* s.replace("", new, count): new goes before every character and at the end
str_interleave(s, new, count) ==
    IF count = 0 THEN s
    ELSE IF s = <<>> THEN new
    ELSE new \o <<Head(s)>> \o str_interleave(Tail(s), new, count - 1)

RECURSIVE str_replace(_, _, _, _)
\* s.replace(old, new, count): the occurrences of old, left to right and not
\* overlapping; count < 0 replaces every one
str_replace(s, old, new, count) ==
    IF count = 0 THEN s
    ELSE IF old = <<>> THEN str_interleave(s, new, count)
    ELSE LET p == Find(old, s, 1)
         IN IF p = 0 THEN s
            ELSE Take(s, p - 1) \o new \o
                 str_replace(Drop(s, p - 1 + Len(old)), old, new, count - 1)

(***************************************************************************)
(* RelativeIndenter                                                        *)
(***************************************************************************)

\* the default outdent marker
DefaultMarker == "<-"

\* select_unique_marker: the first code point from 0x10FFFF down that is not
\* in chars
select_unique_marker(chars) ==
    IF "U+10FFFF" \notin chars THEN "U+10FFFF" ELSE "U+10FFFE"

\* RelativeIndenter.__init__: the marker chosen for the texts
RelativeIndenter(texts) ==
    LET chars == UNION {Chars(texts[k]) : k \in 1..Len(texts)}
    IN IF DefaultMarker \in chars THEN select_unique_marker(chars)
       ELSE DefaultMarker

RECURSIVE make_relative_loop(_, _, _)
\* the loop of make_relative over the lines that are left
make_relative_loop(marker, lines, prev_indent) ==
    IF lines = <<>> THEN <<>>
    ELSE LET line == Head(lines)
             line_without_end == rstrip_chars(line, {NL, CR})
             len_indent == Len(line_without_end) - Len(str_lstrip(line_without_end))
             indent == Take(line, len_indent)
             change == len_indent - Len(prev_indent)
             cur_indent == IF change > 0 THEN Drop(indent, Len(indent) - change)
                           ELSE IF change < 0 THEN Repeat(marker, -change)
                           ELSE <<>>
             out_line == cur_indent \o <<NL>> \o Drop(line, len_indent)
         IN out_line \o make_relative_loop(marker, Tail(lines), indent)

\* make_relative raises ValueError
make_relative_raises(marker, text) == marker \in Chars(text)

\* make_relative, when it does not raise
make_relative(marker, text) ==
    make_relative_loop(marker, splitlines_keepends(text), <<>>)

RECURSIVE make_absolute_loop(_, _, _, _)
\* the loop of make_absolute from the line pair at i (1-based)
make_absolute_loop(marker, lines, i, prev_indent) ==
    IF i > Len(lines) \/ i + 1 > Len(lines) THEN <<>>
    ELSE LET dent == rstrip_chars(lines[i], {CR, NL})
             non_indent == lines[i + 1]
             cur_indent == IF StartsWith(dent, marker)
                           THEN Take(prev_indent, Max(0, Len(prev_indent) - Len(dent)))
                           ELSE prev_indent \o dent
             out_line == IF rstrip_chars(non_indent, {CR, NL}) = <<>>
                         THEN non_indent
                         ELSE cur_indent \o non_indent
         IN out_line \o make_absolute_loop(marker, lines, i + 2, cur_indent)

\* the text make_absolute builds
make_absolute_res(marker, text) ==
    make_absolute_loop(marker, splitlines_keepends(text), 1, <<>>)

\* make_absolute raises ValueError
make_absolute_raises(marker, text) ==
    marker \in Chars(make_absolute_res(marker, text))

\* make_absolute, when it does not raise
make_absolute(marker, text) == make_absolute_res(marker, text)

(***************************************************************************)
(* Optional[str]: None, or a text                                          *)
(***************************************************************************)
None == [kind |-> "none", text |-> <<>>]
Some(t) == [kind |-> "match", text |-> t]
Raised == [kind |-> "raise", text |-> <<>>]

\* the machines that a specification does not run stay idle
IdleIndent ==
    /\ ri_text = <<>> /\ ri_marker = DefaultMarker
    /\ ri_rel = <<>> /\ ri_abs = <<>> /\ ri_pc = "idle"
IdleCascade ==
    /\ search_text = <<>> /\ replace_text = <<>> /\ original_text = <<>>
    /\ git_result = None /\ strategy = 0 /\ tried = <<>>
    /\ sub = 0 /\ sub_tried = <<>>
    /\ result = None /\ pc = "idle"
IdleDiff ==
    /\ original_content = <<>> /\ diff_lines = <<>> /\ result_lines = <<>>
    /\ current_line = 0 /\ hunk_lines = <<>> /\ hunk_pos = 0
    /\ hunks_done = 0 /\ current_orig_line = 0 /\ line_offset = 0
    /\ diff_pc = "idle" /\ diff_result = None
IdleCall ==
    /\ fn = "" /\ args = <<>> /\ ret = None /\ call_pc = "idle"
IdleGit ==
    /\ git_pc = "idle" /\ temp_dir = "none" /\ pending = None
IdleFiles ==
    /\ files = <<>> /\ dirs = {} /\ io_log = {}
IdleBridge ==
    /\ auth_token = None /\ process = "none" /\ request_queue = <<>>
    /\ forwarded = <<>> /\ responses = <<>>
IdleExt ==
    /\ IdleCall /\ IdleGit /\ IdleFiles /\ IdleBridge

(***************************************************************************)
(* The round trip of RelativeIndenter on one text                          *)
(***************************************************************************)

\* the bounds of the texts given to RelativeIndenter
MaxIndentLines == 2
MaxIndentLen == 2

\* every sequence over S of length 0..n
SeqsUpTo(S, n) == UNION {[1..k -> S] : k \in 0..n}

\* texts of up to MaxIndentLines lines: an indent of spaces and tabs, a
\* content (none, a letter, the default marker), with or without a last \n
IndentTexts ==
    LET indents == SeqsUpTo({SP, TAB}, MaxIndentLen)
        contents == {<<>>, <<"x">>, <<DefaultMarker>>}
        lines == {i \o c : i \in indents, c \in contents}
        bodies == SeqsUpTo(lines, MaxIndentLines)
    IN {str_join(<<NL>>, b) \o e : b \in bodies, e \in {<<>>, <<NL>>}}

InitIndent ==
    /\ ri_text \in IndentTexts
    /\ ri_marker = RelativeIndenter(<<ri_text>>)
    /\ ri_rel = <<>> /\ ri_abs = <<>> /\ ri_pc = "new"
    /\ IdleCascade /\ IdleDiff /\ IdleExt

\* ri.make_relative(t)
MakeRelative ==
    /\ ri_pc = "new"
    /\ IF make_relative_raises(ri_marker, ri_text)
       THEN ri_pc' = "ValueError" /\ ri_rel' = ri_rel
       ELSE ri_pc' = "relative" /\ ri_rel' = make_relative(ri_marker, ri_text)
    /\ UNCHANGED <<ri_text, ri_marker, ri_abs, casVars, difVars, extVars>>

\* ri.make_absolute(rel)
MakeAbsolute ==
    /\ ri_pc = "relative"
    /\ IF make_absolute_raises(ri_marker, ri_rel)
       THEN ri_pc' = "ValueError" /\ ri_abs' = ri_abs
       ELSE ri_pc' = "absolute" /\ ri_abs' = make_absolute(ri_marker, ri_rel)
    /\ UNCHANGED <<ri_text, ri_marker, ri_rel, casVars, difVars, extVars>>

NextIndent == MakeRelative \/ MakeAbsolute

SpecIndent == InitIndent /\ [][NextIndent]_vars

\* C5: for a RelativeIndenter built over a text t, make_absolute(make_relative(t))
\* is t, also for texts with whitespace-only lines, with tabs and spaces mixed
\* in the indentation, with or without a last newline.
C5_RoundTrip == ri_pc = "absolute" => ri_abs = ri_text

(***************************************************************************)
(* apply_unified_diff                                                      *)
(***************************************************************************)

Digits == {"0", "1", "2", "3", "4", "5", "6", "7", "8", "9"}

\* int(c) for one digit
DigitValue(c) ==
    CASE c = "0" -> 0 [] c = "1" -> 1 [] c = "2" -> 2 [] c = "3" -> 3
      [] c = "4" -> 4 [] c = "5" -> 5 [] c = "6" -> 6 [] c = "7" -> 7
      [] c = "8" -> 8 [] c = "9" -> 9

RECURSIVE DigitsEnd(_, _)
\* \d+ from position p: the position of the last digit of the run, p - 1 when
\* there is none
DigitsEnd(s, p) ==
    IF p <= Len(s) /\ s[p] \in Digits THEN DigitsEnd(s, p + 1) ELSE p - 1

RECURSIVE int(_)
\* int(s) for a run of digits
int(s) ==
    IF s = <<>> THEN 0
    ELSE 10 * int(Take(s, Len(s) - 1)) + DigitValue(s[Len(s)])

\* (?:,\d+)? from position p: the position after it
SkipCount(s, p) ==
    IF p <= Len(s) /\ s[p] = "," /\ DigitsEnd(s, p + 1) >= p + 1
    THEN DigitsEnd(s, p + 1) + 1
    ELSE p

\* re.match(r'^@@ -(\d+)(?:,\d+)? \+(\d+)(?:,\d+)? @@', line): whether it
\* matches, and group(1)
header_match(line) ==
    LET e1 == DigitsEnd(line, 5)
        p2 == SkipCount(line, e1 + 1)
        e2 == DigitsEnd(line, p2 + 2)
        p3 == SkipCount(line, e2 + 1)
    IN [matches |-> /\ OccursAt(<<"@", "@", SP, "-">>, line, 1)
                    /\ e1 >= 5
                    /\ OccursAt(<<SP, "+">>, line, p2)
                    /\ e2 >= p2 + 2
                    /\ OccursAt(<<SP, "@", "@">>, line, p3),
        group1 |-> SubSeq(line, 5, e1)]

\* line.startswith("@@")
IsHunkHeader(line) == OccursAt(<<"@", "@">>, line, 1)

\* lst[k] of a Python list, k possibly negative: the 1-based position, 0 when
\* the index is out of range (IndexError)
ListIndex(lst, k) ==
    IF k >= 0 /\ k < Len(lst) THEN k + 1
    ELSE IF k < 0 /\ -k <= Len(lst) THEN Len(lst) + k + 1
    ELSE 0

\* lst.pop(k), for an index in range
list_pop(lst, k) ==
    LET p == ListIndex(lst, k)
    IN SubSeq(lst, 1, p - 1) \o SubSeq(lst, p + 1, Len(lst))

\* lst.insert(k, x): an index out of range is clamped to the ends
list_insert(lst, k, x) ==
    LET n == Len(lst)
        at == IF k < 0 THEN Max(0, n + k) ELSE Min(k, n)
    IN SubSeq(lst, 1, at) \o <<x>> \o SubSeq(lst, at + 1, n)

\* the end (in diff_lines, 0-based) of the hunk whose body begins at p: the next
\* line that starts with "@@", or the end
RECURSIVE HunkEnd(_, _)
HunkEnd(lines, p) ==
    IF p < Len(lines) /\ ~IsHunkHeader(lines[p + 1])
    THEN HunkEnd(lines, p + 1) ELSE p

original_lines == splitlines(original_content)

\* the hunk line the for loop is at
hunk_line == hunk_lines[hunk_pos]

\* current_orig_line < len(original_lines) and
\* hunk_line[1:] == original_lines[current_orig_line]; the comparison raises
\* IndexError when the index is out of range
LineCheck ==
    IF ~(current_orig_line < Len(original_lines)) THEN "differs"
    ELSE IF ListIndex(original_lines, current_orig_line) = 0 THEN "IndexError"
    ELSE IF Tail(hunk_line) = original_lines[ListIndex(original_lines, current_orig_line)]
    THEN "same" ELSE "differs"

\* the outer loop at a line that opens no hunk: not a header, or a header that
\* the pattern does not match
SkipDiffLine ==
    /\ diff_pc = "scan"
    /\ current_line < Len(diff_lines)
    /\ LET line == diff_lines[current_line + 1]
       IN ~IsHunkHeader(line) \/ ~header_match(line).matches
    /\ current_line' = current_line + 1
    /\ UNCHANGED <<original_content, diff_lines, result_lines, hunk_lines,
                   hunk_pos, hunks_done, current_orig_line, line_offset,
                   diff_pc, diff_result, riVars, casVars, extVars>>

\* the outer loop at a hunk header: the hunk's lines are collected, the cursor
\* is set and the offset is reset
OpenHunk ==
    /\ diff_pc = "scan"
    /\ current_line < Len(diff_lines)
    /\ LET line == diff_lines[current_line + 1]
           end == HunkEnd(diff_lines, current_line + 1)
       IN /\ IsHunkHeader(line) /\ header_match(line).matches
          /\ hunk_lines' = SubSeq(diff_lines, current_line + 2, end)
          /\ current_line' = end
          /\ current_orig_line' = int(header_match(line).group1) - 1
    /\ line_offset' = 0
    /\ hunk_pos' = 1
    /\ diff_pc' = "hunk"
    /\ UNCHANGED <<original_content, diff_lines, result_lines, hunks_done,
                   diff_result, riVars, casVars, extVars>>

\* ContextLine with the output buffer returned when the line does not match
ContextLine_ReturnBuffer ==
    /\ diff_pc = "hunk" /\ hunk_pos <= Len(hunk_lines)
    /\ StartsWith(hunk_line, SP)
    /\ IF LineCheck = "same"
       THEN /\ current_orig_line' = current_orig_line + 1
            /\ hunk_pos' = hunk_pos + 1
            /\ UNCHANGED <<diff_pc, diff_result>>
       ELSE /\ diff_result' = Some(str_join(<<NL>>, result_lines))
            /\ diff_pc' = "done"
            /\ UNCHANGED <<current_orig_line, hunk_pos>>
    /\ UNCHANGED <<original_content, diff_lines, result_lines, current_line,
                   hunk_lines, hunks_done, line_offset, riVars, casVars, extVars>>

\* a context line
ContextLine ==
    /\ diff_pc = "hunk" /\ hunk_pos <= Len(hunk_lines)
    /\ StartsWith(hunk_line, SP)
    /\ IF LineCheck = "same"
       THEN /\ current_orig_line' = current_orig_line + 1
            /\ hunk_pos' = hunk_pos + 1
            /\ UNCHANGED <<diff_pc, diff_result>>
       ELSE /\ diff_result' = IF LineCheck = "IndexError" THEN Raised ELSE None
            /\ diff_pc' = "done"
            /\ UNCHANGED <<current_orig_line, hunk_pos>>
    /\ UNCHANGED <<original_content, diff_lines, result_lines, current_line,
                   hunk_lines, hunks_done, line_offset, riVars, casVars, extVars>>

\* RemovalLine with the offset left as it was
RemovalLine_KeepOffset ==
    /\ diff_pc = "hunk" /\ hunk_pos <= Len(hunk_lines)
    /\ StartsWith(hunk_line, "-")
    /\ IF LineCheck = "same" /\
          ListIndex(result_lines, current_orig_line + line_offset) # 0
       THEN /\ result_lines' = list_pop(result_lines, current_orig_line + line_offset)
            /\ line_offset' = line_offset
            /\ current_orig_line' = current_orig_line + 1
            /\ hunk_pos' = hunk_pos + 1
            /\ UNCHANGED <<diff_pc, diff_result>>
       ELSE /\ diff_result' = IF LineCheck = "differs" THEN None ELSE Raised
            /\ diff_pc' = "done"
            /\ UNCHANGED <<result_lines, line_offset, current_orig_line, hunk_pos>>
    /\ UNCHANGED <<original_content, diff_lines, current_line, hunk_lines,
                   hunks_done, riVars, casVars, extVars>>

\* a removal line; result_lines.pop raises IndexError when its index is out
\* of range
RemovalLine ==
    /\ diff_pc = "hunk" /\ hunk_pos <= Len(hunk_lines)
    /\ StartsWith(hunk_line, "-")
    /\ IF LineCheck = "same" /\
          ListIndex(result_lines, current_orig_line + line_offset) # 0
       THEN /\ result_lines' = list_pop(result_lines, current_orig_line + line_offset)
            /\ line_offset' = line_offset - 1
            /\ current_orig_line' = current_orig_line + 1
            /\ hunk_pos' = hunk_pos + 1
            /\ UNCHANGED <<diff_pc, diff_result>>
       ELSE /\ diff_result' = IF LineCheck = "differs" THEN None ELSE Raised
            /\ diff_pc' = "done"
            /\ UNCHANGED <<result_lines, line_offset, current_orig_line, hunk_pos>>
    /\ UNCHANGED <<original_content, diff_lines, current_line, hunk_lines,
                   hunks_done, riVars, casVars, extVars>>

\* an addition line
AdditionLine ==
    /\ diff_pc = "hunk" /\ hunk_pos <= Len(hunk_lines)
    /\ StartsWith(hunk_line, "+")
    /\ result_lines' = list_insert(result_lines, current_orig_line + line_offset,
                                   Tail(hunk_line))
    /\ line_offset' = line_offset + 1
    /\ hunk_pos' = hunk_pos + 1
    /\ UNCHANGED <<original_content, diff_lines, current_line, hunk_lines,
                   hunks_done, current_orig_line, diff_pc, diff_result,
                   riVars, casVars, extVars>>

\* a hunk line with none of the three prefixes passes
OtherLine ==
    /\ diff_pc = "hunk" /\ hunk_pos <= Len(hunk_lines)
    /\ ~StartsWith(hunk_line, SP) /\ ~StartsWith(hunk_line, "-")
    /\ ~StartsWith(hunk_line, "+")
    /\ hunk_pos' = hunk_pos + 1
    /\ UNCHANGED <<original_content, diff_lines, result_lines, current_line,
                   hunk_lines, hunks_done, current_orig_line, line_offset,
                   diff_pc, diff_result, riVars, casVars, extVars>>

\* the for loop over the hunk's lines ends: back to the outer loop
CloseHunk ==
    /\ diff_pc = "hunk" /\ hunk_pos > Len(hunk_lines)
    /\ diff_pc' = "scan"
    /\ hunks_done' = hunks_done + 1
    /\ UNCHANGED <<original_content, diff_lines, result_lines, current_line,
                   hunk_lines, hunk_pos, current_orig_line, line_offset,
                   diff_result, riVars, casVars, extVars>>

\* return "\n".join(result_lines)
ReturnDiff ==
    /\ diff_pc = "scan"
    /\ current_line >= Len(diff_lines)
    /\ diff_result' = Some(str_join(<<NL>>, result_lines))
    /\ diff_pc' = "done"
    /\ UNCHANGED <<original_content, diff_lines, result_lines, current_line,
                   hunk_lines, hunk_pos, hunks_done, current_orig_line,
                   line_offset, riVars, casVars, extVars>>

NextDiff ==
    \/ SkipDiffLine
    \/ OpenHunk
    \/ ContextLine
    \/ RemovalLine
    \/ AdditionLine
    \/ OtherLine
    \/ CloseHunk
    \/ ReturnDiff

(***************************************************************************)
(* The inputs of apply_unified_diff                                        *)
(***************************************************************************)

\* the bounds of the diffs: the lines of original, the 1-based start of a
\* hunk header, the body lines of the hunk of a one-hunk diff and of each hunk
\* of a two-hunk diff
MaxOrigLines == 3
MaxStart == 3
MaxHunkLines == 3
MaxHunkLines2 == 1

\* str(n) for 0 <= n < 100
str(n) ==
    LET d == <<"0", "1", "2", "3", "4", "5", "6", "7", "8", "9">>
    IN IF n < 10 THEN <<d[n + 1]>> ELSE <<d[(n \div 10) + 1], d[(n % 10) + 1]>>

\* the lines of a file, one letter each
FileLines == {<<"a">>, <<"b">>}

\* a hunk body line: context, removal or addition of a file line
HunkLineSet == {<<p>> \o l : p \in {SP, "-", "+"}, l \in FileLines}

\* a hunk body line with another prefix, and an empty one
OtherLines == {<<"\\">>, <<>>}

\* the number of lines of body with a prefix in ps
RECURSIVE CountPrefix(_, _)
CountPrefix(body, ps) ==
    IF body = <<>> THEN 0
    ELSE (IF Head(body) # <<>> /\ Head(body)[1] \in ps THEN 1 ELSE 0)
         + CountPrefix(Tail(body), ps)

\* the header "@@ -start,count +start,count @@" of a hunk with this body
Header(start, body) ==
    <<"@", "@", SP, "-">> \o str(start) \o <<",">>
    \o str(CountPrefix(body, {SP, "-"}))
    \o <<SP, "+">> \o str(start) \o <<",">>
    \o str(CountPrefix(body, {SP, "+"})) \o <<SP, "@", "@">>

Hunk(start, body) == <<Header(start, body)>> \o body

OrigTexts ==
    {str_join(<<NL>>, ls) : ls \in SeqsUpTo(FileLines, MaxOrigLines)}

\* one-hunk diffs
OneHunkDiffs ==
    {Hunk(st, b) : st \in 0..MaxStart, b \in SeqsUpTo(HunkLineSet, MaxHunkLines)}

\* a one-line hunk after a line that is no header, after a header that the
\* pattern does not match, or with a header without counts
OddDiffs ==
    {pre \o Hunk(st, <<l>>) :
        pre \in {<<<<"x">>>>, <<<<"@", "@", SP, "-", "x", SP, "@", "@">>>>},
        st \in 1..2, l \in HunkLineSet \cup OtherLines}
    \cup {<<<<"@", "@", SP, "-">> \o str(st) \o <<SP, "+">> \o str(st)
            \o <<SP, "@", "@">>, l>> : st \in 1..2, l \in HunkLineSet \cup OtherLines}

\* two-hunk diffs
TwoHunkDiffs ==
    {Hunk(s1, b1) \o Hunk(s2, b2) :
        s1 \in 0..MaxStart, s2 \in 0..MaxStart,
        b1 \in SeqsUpTo(HunkLineSet, MaxHunkLines2),
        b2 \in SeqsUpTo(HunkLineSet, MaxHunkLines2)}

\* apply_unified_diff(original_content, diff_lines) is called
InitDiffWith(diffs) ==
    /\ original_content \in OrigTexts
    /\ diff_lines \in diffs
    /\ result_lines = splitlines(original_content)
    /\ current_line = 0
    /\ hunk_lines = <<>> /\ hunk_pos = 0 /\ hunks_done = 0
    /\ current_orig_line = 0 /\ line_offset = 0
    /\ diff_pc = "scan" /\ diff_result = None
    /\ IdleIndent /\ IdleCascade /\ IdleExt

InitDiff == InitDiffWith(OneHunkDiffs \cup OddDiffs \cup TwoHunkDiffs)
InitDiffOne == InitDiffWith(OneHunkDiffs \cup OddDiffs)

SpecDiff == InitDiff /\ [][NextDiff]_vars
SpecDiffOne == InitDiffOne /\ [][NextDiff]_vars

(***************************************************************************)
(* What a diff says, read as a patch                                       *)
(***************************************************************************)

RECURSIVE HunksOf(_)
\* the hunks of a diff: the start of each header and the body under it
HunksOf(lines) ==
    IF lines = <<>> THEN <<>>
    ELSE IF IsHunkHeader(Head(lines)) /\ header_match(Head(lines)).matches
    THEN LET e == HunkEnd(lines, 1)
         IN <<[start |-> int(header_match(Head(lines)).group1),
               body |-> SubSeq(lines, 2, e)]>> \o HunksOf(Drop(lines, e))
    ELSE HunksOf(Tail(lines))

RECURSIVE BodyTexts(_, _)
\* the texts of the body lines with a prefix in ps, in order
BodyTexts(body, ps) ==
    IF body = <<>> THEN <<>>
    ELSE (IF Head(body) # <<>> /\ Head(body)[1] \in ps
          THEN <<Tail(Head(body))>> ELSE <<>>)
         \o BodyTexts(Tail(body), ps)

\* the lines the hunk expects in original, and the lines it leaves in their place
OldLines(h) == BodyTexts(h.body, {SP, "-"})
NewLines(h) == BodyTexts(h.body, {SP, "+"})

\* the context and removal lines of h equal the lines of orig from h.start on
OldLinesMatch(orig, h) ==
    \/ OldLines(h) = <<>>
    \/ /\ h.start >= 1
       /\ h.start - 1 + Len(OldLines(h)) <= Len(orig)
       /\ SubSeq(orig, h.start, h.start - 1 + Len(OldLines(h))) = OldLines(h)

RECURSIVE Patched(_, _, _)
\* orig from its line pos + 1 on with the hunks applied, each at its own place
Patched(orig, hunks, pos) ==
    IF hunks = <<>> THEN Drop(orig, pos)
    ELSE LET h == Head(hunks)
             c == Min(h.start - 1, Len(orig))
         IN SubSeq(orig, pos + 1, c) \o NewLines(h)
            \o Patched(orig, Tail(hunks), c + Len(OldLines(h)))

RECURSIVE HunksInOrder(_, _, _)
\* every hunk starts at a line of orig (or right after the last), after the
\* lines of the hunks before it, and its old lines match
HunksInOrder(orig, hunks, pos) ==
    \/ hunks = <<>>
    \/ LET h == Head(hunks)
       IN /\ h.start >= 1 /\ h.start - 1 >= pos /\ h.start - 1 <= Len(orig)
          /\ OldLinesMatch(orig, h)
          /\ HunksInOrder(orig, Tail(hunks), h.start - 1 + Len(OldLines(h)))

\* the hunk line at the cursor does not match original: the cursor is past the
\* end, there is no line at the cursor, or the line there is another one
CursorMismatch ==
    \/ current_orig_line >= Len(original_lines)
    \/ current_orig_line < 0
    \/ original_lines[current_orig_line + 1] # Tail(hunk_line)

\* C6: when a context line or a removal line of a hunk differs from the
\* original line at the hunk's cursor, or the cursor is past the end of
\* original, apply_unified_diff returns None and the original content is as
\* it was.
C6_MismatchReturnsNone ==
    [][(/\ diff_pc = "hunk" /\ hunk_pos <= Len(hunk_lines)
        /\ (StartsWith(hunk_line, SP) \/ StartsWith(hunk_line, "-"))
        /\ CursorMismatch)
       => (/\ diff_pc' = "done" /\ diff_result' = None
           /\ original_content' = original_content)]_vars

\* C7: for a diff with one hunk whose start is >= 1 and whose context and
\* removal lines equal the original lines from start on, the result is
\* original's lines with the removal lines deleted and each addition line at
\* its place in the hunk, the lines outside the hunk as they were.
C7_SingleHunkApplied ==
    (/\ diff_pc = "done"
     /\ Len(HunksOf(diff_lines)) = 1
     /\ HunksOf(diff_lines)[1].start >= 1
     /\ OldLinesMatch(original_lines, HunksOf(diff_lines)[1]))
    => diff_result =
         Some(str_join(<<NL>>, Patched(original_lines, HunksOf(diff_lines), 0)))

\* a one-hunk diff that removes a line and adds a line has been applied
C7_Witness ==
    /\ diff_pc = "done"
    /\ Len(HunksOf(diff_lines)) = 1
    /\ HunksOf(diff_lines)[1].start >= 2
    /\ OldLinesMatch(original_lines, HunksOf(diff_lines)[1])
    /\ CountPrefix(HunksOf(diff_lines)[1].body, {"-"}) >= 1
    /\ CountPrefix(HunksOf(diff_lines)[1].body, {"+"}) >= 1
    /\ CountPrefix(HunksOf(diff_lines)[1].body, {SP}) >= 1
    /\ diff_result.kind = "match"
    /\ diff_result.text # original_content

\* C8: for a diff with two or more hunks that each verify against original,
\* the offset carries the lines added and removed by the earlier hunks, and
\* the result is original with all the hunks applied as a patch.
C8_HunksAppliedAsPatch ==
    (/\ diff_pc = "done"
     /\ Len(HunksOf(diff_lines)) >= 2
     /\ HunksInOrder(original_lines, HunksOf(diff_lines), 0))
    => diff_result =
         Some(str_join(<<NL>>, Patched(original_lines, HunksOf(diff_lines), 0)))

(***************************************************************************)
(* difflib.SequenceMatcher(None, a, b).ratio()                             *)
(* There is no junk, and the texts are shorter than the 200 characters     *)
(* from which autojunk drops popular characters.                           *)
(***************************************************************************)

RECURSIVE CommonRun(_, _, _, _, _, _)
\* the length of the common run of a from i and b from j (0-based), inside
\* a[:ahi] and b[:bhi]
CommonRun(a, b, i, j, ahi, bhi) ==
    IF i < ahi /\ j < bhi /\ a[i + 1] = b[j + 1]
    THEN 1 + CommonRun(a, b, i + 1, j + 1, ahi, bhi)
    ELSE 0

\* find_longest_match(alo, ahi, blo, bhi): the longest matching block; of the
\* longest ones the one that starts earliest in a, and of those the one that
\* starts earliest in b
find_longest_match(a, b, alo, ahi, blo, bhi) ==
    LET run == [i \in alo..(ahi - 1), j \in blo..(bhi - 1) |->
                   CommonRun(a, b, i, j, ahi, bhi)]
        best == CHOOSE p \in DOMAIN run :
                    \A q \in DOMAIN run :
                        \/ run[p] > run[q]
                        \/ /\ run[p] = run[q]
                           /\ \/ p[1] < q[1]
                              \/ p[1] = q[1] /\ p[2] <= q[2]
    IN IF alo >= ahi \/ blo >= bhi THEN [i |-> alo, j |-> blo, size |-> 0]
       ELSE IF run[best] = 0 THEN [i |-> alo, j |-> blo, size |-> 0]
       ELSE [i |-> best[1], j |-> best[2], size |-> run[best]]

RECURSIVE matching_size(_, _, _, _, _, _)
\* the total size of get_matching_blocks(): the longest block, then the blocks
\* of what is left of it and of what is right of it
matching_size(a, b, alo, ahi, blo, bhi) ==
    LET m == find_longest_match(a, b, alo, ahi, blo, bhi)
    IN IF m.size = 0 THEN 0
       ELSE m.size
            + matching_size(a, b, alo, m.i, blo, m.j)
            + matching_size(a, b, m.i + m.size, ahi, m.j + m.size, bhi)

\* ratio(): 2.0 * matches / length, 1.0 for two empty texts; a fraction
\* <<numerator, denominator>>
ratio(a, b) ==
    IF Len(a) + Len(b) = 0 THEN <<1, 1>>
    ELSE <<2 * matching_size(a, b, 0, Len(a), 0, Len(b)), Len(a) + Len(b)>>

\* x < y and x >= y for fractions with positive denominators
RatioLess(x, y) == x[1] * y[2] < y[1] * x[2]
RatioAtLeast(x, y) == ~RatioLess(x, y)

(***************************************************************************)
(* The strategies of flexible_search_and_replace                           *)
(***************************************************************************)

\* strip_blank_lines for one text: text.strip("\n") + "\n"
strip_blank_lines(text) == strip_chars(text, {NL}) \o <<NL>>

\* search_and_replace(texts)
\* search_and_replace with original_text.replace(search_text, replace_text, 1)
search_and_replace_first(search, replace, original) ==
    IF ~Contains(search, original) THEN None
    ELSE Some(str_replace(original, search, replace, 1))

search_and_replace(search, replace, original) ==
    IF ~Contains(search, original) THEN None
    ELSE Some(str_replace(original, search, replace, -1))

\* l[lo:hi] of a Python list or str, lo and hi possibly negative
PySlice(l, lo, hi) ==
    LET n == Len(l)
        a == IF lo < 0 THEN Max(0, n + lo) ELSE Min(lo, n)
        b == IF hi < 0 THEN Max(0, n + hi) ELSE Min(hi, n)
    IN SubSeq(l, a + 1, b)

\* the threshold 0.7 of the cascade and of try_dotdotdots, as a fraction
ThresholdNum == 7
ThresholdDen == 10

\* the windows of fuzzy_search_and_replace in the order of its two loops:
\* <<start, length>> for each length from min_len to max_len, each start.
\* int(n * 0.9) and int(n * 1.1) are (9 * n) \div 10 and (11 * n) \div 10 for
\* the n < 10 that occur.
\* the same windows with the loops exchanged: each start, each length
fuzzy_windows_start_major(n_search, n_original) ==
    LET min_len == Max(1, (9 * n_search) \div 10)
        max_len == Min(n_original, (11 * n_search) \div 10)
        per(i) == SelectSeq([k \in 1..(max_len - min_len + 1) |-> <<i, min_len + k - 1>>],
                            LAMBDA w : w[1] + w[2] <= n_original)
        RECURSIVE from(_)
        from(i) == IF i >= n_original THEN <<>>
                   ELSE per(i) \o from(i + 1)
    IN from(0)

fuzzy_windows(n_search, n_original) ==
    LET min_len == Max(1, (9 * n_search) \div 10)
        max_len == Min(n_original, (11 * n_search) \div 10)
        per(length) == [i \in 1..(n_original - length + 1) |-> <<i - 1, length>>]
        RECURSIVE from(_)
        from(length) == IF length > max_len THEN <<>>
                        ELSE per(length) \o from(length + 1)
    IN from(min_len)

RECURSIVE fuzzy_scan(_, _, _, _, _)
\* the two loops from window k on: max_similarity, best_match_start and
\* best_match_end when they end
fuzzy_scan(search, original_ls, windows, k, best) ==
    IF k > Len(windows) THEN best
    ELSE LET i == windows[k][1]
             length == windows[k][2]
             chunk_text == str_join(<<NL>>, SubSeq(original_ls, i + 1, i + length))
             similarity == ratio(chunk_text, search)
         IN fuzzy_scan(search, original_ls, windows, k + 1,
                IF RatioLess(best.max_similarity, similarity)
                THEN [max_similarity |-> similarity, start |-> i, end |-> i + length]
                ELSE best)

\* fuzzy_search_and_replace(texts, threshold), threshold a fraction
fuzzy_search_and_replace(search, replace, original, threshold) ==
    LET search_lines == splitlines(search)
        original_ls == splitlines(original)
        best == fuzzy_scan(search, original_ls,
                           fuzzy_windows(Len(search_lines), Len(original_ls)), 1,
                           [max_similarity |-> <<0, 1>>, start |-> -1, end |-> -1])
    IN IF RatioLess(best.max_similarity, threshold) THEN None
       ELSE Some(str_join(<<NL>>,
                PySlice(original_ls, 0, best.start)
                \o splitlines(replace)
                \o PySlice(original_ls, best.end, Len(original_ls))))

\* the character U+2026, the one-character ellipsis
ELLIPSIS == "U+2026"

\* an ellipsis begins at position p of s: "..." or the one character
DotsAt(s, p) ==
    IF p > Len(s) THEN 0
    ELSE IF OccursAt(<<".", ".", ".">>, s, p) THEN 3
    ELSE IF s[p] = ELLIPSIS THEN 1
    ELSE 0

RECURSIVE dots_split(_)
\* re.compile(r'(\.{3}|...)').split(s): the pieces, the ellipses between them
\* included
dots_split(s) ==
    LET ps == {p \in 1..Len(s) : DotsAt(s, p) > 0}
    IN IF ps = {} THEN <<s>>
       ELSE LET p == CHOOSE q \in ps : \A r \in ps : q <= r
                n == DotsAt(s, p)
            IN <<Take(s, p - 1), SubSeq(s, p, p + n - 1)>>
               \o dots_split(Drop(s, p - 1 + n))

RECURSIVE window_scan(_, _, _, _)
\* the sliding window of try_dotdotdots from the 0-based start j on: best_ratio
\* and best_match when it ends
window_scan(search_piece, new_text, j, best) ==
    IF j > Len(new_text) - Len(search_piece) THEN best
    ELSE LET chunk == SubSeq(new_text, j + 1, j + Len(search_piece))
             r == ratio(search_piece, chunk)
         IN window_scan(search_piece, new_text, j + 1,
                IF RatioLess(best.best_ratio, r)
                THEN [best_ratio |-> r, best_match |-> chunk, found |-> TRUE]
                ELSE best)

RECURSIVE dots_loop(_, _, _, _)
\* the loop of try_dotdotdots over the pieces from the 0-based index i on
dots_loop(search_pieces, replace_pieces, i, new_text) ==
    IF i >= Len(search_pieces) THEN Some(new_text)
    ELSE LET search_piece == search_pieces[i + 1]
             replace_piece == replace_pieces[i + 1]
             best == window_scan(search_piece, new_text, 0,
                        [best_ratio |-> <<0, 1>>, best_match |-> <<>>,
                         found |-> FALSE])
         IN IF str_strip(search_piece) = <<>>
            THEN dots_loop(search_pieces, replace_pieces, i + 2, new_text)
            ELSE IF Contains(search_piece, new_text)
            THEN dots_loop(search_pieces, replace_pieces, i + 2,
                           str_replace(new_text, search_piece, replace_piece, 1))
            ELSE IF /\ RatioAtLeast(best.best_ratio, <<ThresholdNum, ThresholdDen>>)
                    /\ best.found /\ best.best_match # <<>>
            THEN dots_loop(search_pieces, replace_pieces, i + 2,
                           str_replace(new_text, best.best_match, replace_piece, 1))
            ELSE None

\* try_dotdotdots(texts)
try_dotdotdots(search, replace, original) ==
    LET search_pieces == dots_split(search)
        replace_pieces == dots_split(replace)
    IN IF ~Contains(<<".", ".", ".">>, search) /\ ~Contains(<<ELLIPSIS>>, search)
       THEN None
       ELSE IF Len(search_pieces) # Len(replace_pieces) THEN None
       ELSE IF Len(search_pieces) = 1 THEN None
       ELSE dots_loop(search_pieces, replace_pieces, 0, original)

\* the pattern re.sub(r'\s+', r'\\s+', re.escape(search_text)) as the regex
\* engine reads it.  re.escape puts a backslash before every whitespace
\* character, so each whitespace run that \s+ finds in the escaped text is the
\* one character after that backslash, and what is left of it is "\\s+": a
\* literal backslash, then one or more "s".  Every other character stands for
\* itself.
whitespace_pattern(search) ==
    Concat([k \in 1..Len(search) |->
               IF IsSpace(search[k])
               THEN <<[kind |-> "lit", ch |-> "\\"], [kind |-> "plus", ch |-> "s"]>>
               ELSE <<[kind |-> "lit", ch |-> search[k]]>>])

RECURSIVE RunOf(_, _, _)
\* the number of characters c in s from position p on
RunOf(s, p, c) ==
    IF p <= Len(s) /\ s[p] = c THEN 1 + RunOf(s, p + 1, c) ELSE 0

RECURSIVE match_end(_, _, _, _)
\* the pattern from its element k on matches s from position p on: the position
\* after the match the backtracking engine finds first (a "+" takes as much as
\* lets the rest match), 0 when there is none
match_end(pat, k, s, p) ==
    IF k > Len(pat) THEN p
    ELSE IF pat[k].kind = "lit"
    THEN IF p <= Len(s) /\ s[p] = pat[k].ch
         THEN match_end(pat, k + 1, s, p + 1) ELSE 0
    ELSE LET n == RunOf(s, p, pat[k].ch)
             ok == {m \in 1..n : match_end(pat, k + 1, s, p + m) # 0}
         IN IF ok = {} THEN 0
            ELSE match_end(pat, k + 1, s, p + (CHOOSE m \in ok : \A q \in ok : m >= q))

\* replace_with_whitespace_flexibility(texts): the first match is replaced
replace_with_whitespace_flexibility(search, replace, original) ==
    LET pat == whitespace_pattern(search)
        starts == {p \in 1..(Len(original) + 1) : match_end(pat, 1, original, p) # 0}
    IN IF starts = {} THEN None
       ELSE LET p == CHOOSE q \in starts : \A r \in starts : q <= r
            IN Some(Take(original, p - 1) \o replace
                    \o Drop(original, match_end(pat, 1, original, p) - 1))

(***************************************************************************)
(* The sub-strategies of apply_comprehensive_preprocessing                 *)
(***************************************************************************)

RECURSIVE collapse_whitespace(_)
\* re.sub(r'\s+', ' ', s)
collapse_whitespace(s) ==
    IF s = <<>> THEN <<>>
    ELSE IF IsSpace(Head(s)) THEN <<SP>> \o collapse_whitespace(str_lstrip(s))
    ELSE <<Head(s)>> \o collapse_whitespace(Tail(s))

\* "\n".join(re.sub(r'\s+', ' ', line.strip()) for line in text.splitlines())
normalize_lines(text) ==
    LET ls == splitlines(text)
    IN str_join(<<NL>>, [k \in 1..Len(ls) |-> collapse_whitespace(str_strip(ls[k]))])

\* try_blank_line_stripping_only(texts)
try_blank_line_stripping_only(search, replace, original) ==
    search_and_replace(strip_blank_lines(search), strip_blank_lines(replace),
                       strip_blank_lines(original))

\* try_whitespace_normalization(texts)
try_whitespace_normalization(search, replace, original) ==
    search_and_replace(normalize_lines(search), normalize_lines(replace),
                       normalize_lines(original))

\* len(line) - len(line.lstrip())
indent_of(line) == Len(line) - Len(str_lstrip(line))

\* min(indent of the lines that are not blank); -1 when every line is blank
min_indent(lines) ==
    LET ks == {k \in 1..Len(lines) : str_strip(lines[k]) # <<>>}
    IN IF ks = {} THEN -1
       ELSE indent_of(lines[CHOOSE k \in ks :
                              \A q \in ks : indent_of(lines[k]) <= indent_of(lines[q])])

\* a line with the common indentation n taken off, a blank or a shallower line
\* as it is
align_line(line, n) ==
    IF str_strip(line) = <<>> THEN line
    ELSE IF indent_of(line) >= n THEN Drop(line, n)
    ELSE line

align_lines(lines, n) == [k \in 1..Len(lines) |-> align_line(lines[k], n)]

\* the window of original from the 0-based line i aligns with the search
window_aligns(search_lines, original_ls, i) ==
    LET potential_match == SubSeq(original_ls, i + 1, i + Len(search_lines))
    IN /\ min_indent(potential_match) >= 0
       /\ str_join(<<NL>>, align_lines(search_lines, min_indent(search_lines)))
          = str_join(<<NL>>, align_lines(potential_match, min_indent(potential_match)))

\* the write-back of try_indent_alignment at the window i: line j of the
\* window becomes line j of the aligned replacement, at the indentation the
\* original line has when it is not blank
write_back(original_ls, aligned_replace_lines, n_search, i) ==
    [k \in 1..Len(original_ls) |->
        IF k >= i + 1 /\ k <= i + n_search
        THEN IF str_strip(original_ls[k]) # <<>>
             THEN Repeat(SP, indent_of(original_ls[k]))
                  \o str_lstrip(aligned_replace_lines[k - i])
             ELSE aligned_replace_lines[k - i]
        ELSE original_ls[k]]

\* try_indent_alignment(texts); aligned_replace_lines[j] raises IndexError
\* when the replacement has fewer lines than the search
try_indent_alignment(search, replace, original) ==
    LET search_lines == splitlines(search)
        replace_lines == splitlines(replace)
        original_ls == splitlines(original)
        is == {i \in 0..(Len(original_ls) - Len(search_lines)) :
                  window_aligns(search_lines, original_ls, i)}
        i == CHOOSE q \in is : \A r \in is : q <= r
    IN IF search_lines = <<>> \/ replace_lines = <<>> \/ original_ls = <<>>
       THEN None
       ELSE IF min_indent(search_lines) < 0 THEN None
       ELSE IF is = {} THEN None
       ELSE IF Len(replace_lines) < Len(search_lines) THEN Raised
       ELSE Some(str_join(<<NL>>,
                write_back(original_ls,
                           align_lines(replace_lines, min_indent(search_lines)),
                           Len(search_lines), i)))

\* the body the four relative-indentation sub-strategies share: the three texts
\* made relative, the replacement done, the result made absolute; a ValueError
\* is caught and gives None
relative_replace(search, replace, original) ==
    LET marker == RelativeIndenter(<<search, replace, original>>)
        rel_search == make_relative(marker, search)
        rel_replace == make_relative(marker, replace)
        rel_original == make_relative(marker, original)
        rel_result == str_replace(rel_original, rel_search, rel_replace, -1)
    IN IF \/ make_relative_raises(marker, search)
          \/ make_relative_raises(marker, replace)
          \/ make_relative_raises(marker, original)
       THEN None
       ELSE IF ~Contains(rel_search, rel_original) THEN None
       ELSE IF make_absolute_raises(marker, rel_result) THEN None
       ELSE Some(make_absolute(marker, rel_result))

\* try_relative_indentation(texts)
try_relative_indentation(search, replace, original) ==
    relative_replace(search, replace, original)

\* try_relative_with_blank_stripping(texts): the blank lines original begins
\* and ends with are put back
try_relative_with_blank_stripping(search, replace, original) ==
    LET r == relative_replace(strip_blank_lines(search), strip_blank_lines(replace),
                              strip_blank_lines(original))
        leading_blanks == Len(original) - Len(lstrip_chars(original, {NL}))
        trailing_blanks == Len(original) - Len(rstrip_chars(original, {NL}))
        led == IF leading_blanks > 0 THEN Repeat(NL, leading_blanks) \o r.text
               ELSE r.text
        trailed == IF trailing_blanks > 0
                   THEN rstrip_chars(led, {NL}) \o Repeat(NL, trailing_blanks)
                   ELSE led
    IN IF r.kind = "match" THEN Some(trailed) ELSE r

\* try_relative_with_whitespace_norm(texts)
try_relative_with_whitespace_norm(search, replace, original) ==
    relative_replace(collapse_whitespace(search), collapse_whitespace(replace),
                     collapse_whitespace(original))

\* try_all_preprocessing(texts)
try_all_preprocessing(search, replace, original) ==
    relative_replace(normalize_lines(strip_blank_lines(search)),
                     normalize_lines(strip_blank_lines(replace)),
                     normalize_lines(strip_blank_lines(original)))

\* the sub-strategy k of apply_comprehensive_preprocessing, in its order
sub_strategy(k, search, replace, original) ==
    CASE k = 1 -> try_blank_line_stripping_only(search, replace, original)
      [] k = 2 -> try_whitespace_normalization(search, replace, original)
      [] k = 3 -> try_indent_alignment(search, replace, original)
      [] k = 4 -> try_relative_indentation(search, replace, original)
      [] k = 5 -> try_relative_with_blank_stripping(search, replace, original)
      [] k = 6 -> try_relative_with_whitespace_norm(search, replace, original)
      [] k = 7 -> try_all_preprocessing(search, replace, original)

\* "if result:" a text that is not empty
Truthy(r) == r.kind = "match" /\ r.text # <<>>

RECURSIVE preprocessing_from(_, _, _, _)
\* the loop of apply_comprehensive_preprocessing from sub-strategy k on: the
\* first truthy result; an exception of a sub-strategy leaves the function
preprocessing_from(k, search, replace, original) ==
    IF k > 7 THEN None
    ELSE LET r == sub_strategy(k, search, replace, original)
         IN IF r.kind = "raise" THEN Raised
            ELSE IF Truthy(r) THEN r
            ELSE preprocessing_from(k + 1, search, replace, original)

\* apply_comprehensive_preprocessing(texts)
apply_comprehensive_preprocessing(search, replace, original) ==
    preprocessing_from(1, search, replace, original)

(***************************************************************************)
(* flexible_search_and_replace: the loop over the strategies, and inside   *)
(* strategy 5 the loop of apply_comprehensive_preprocessing.  tried and    *)
(* sub_tried are what verbose=True prints: each strategy tried and how it  *)
(* ended.                                                                  *)
(***************************************************************************)

\* the list of strategies with the fuzzy matching before the git fallback
strategies_fuzzy_before_git ==
    <<"search_and_replace", "try_dotdotdots", "strip_blank_lines",
      "replace_with_whitespace_flexibility", "apply_comprehensive_preprocessing",
      "fuzzy_search_and_replace", "git_cherry_pick_strategy">>

\* the list of strategies, in the order of the loop
strategies ==
    <<"search_and_replace", "try_dotdotdots", "strip_blank_lines",
      "replace_with_whitespace_flexibility", "apply_comprehensive_preprocessing",
      "git_cherry_pick_strategy", "fuzzy_search_and_replace">>

\* the loop without its except clause
handle_no_except(r) ==
    CASE r.kind = "match" -> "return"
      [] r.kind = "none" -> "continue"
      [] r.kind = "raise" -> "propagate"

\* try: result = strategy(texts) ... except Exception: continue
\* what the loop does with what a strategy gave
handle(r) ==
    CASE r.kind = "match" -> "return"
      [] r.kind = "none" -> "continue"
      [] r.kind = "raise" -> "continue"

\* the loop is at the strategy of this name
At(name) ==
    /\ pc = "loop"
    /\ strategy <= Len(strategies)
    /\ strategies[strategy] = name

\* the strategy the loop is at has given r
Attempted(r) ==
    /\ tried' = Append(tried, [name |-> strategies[strategy], outcome |-> r.kind])
    /\ CASE handle(r) = "return" ->
              result' = r /\ pc' = "done" /\ strategy' = strategy
         [] handle(r) = "continue" ->
              result' = result /\ pc' = "loop" /\ strategy' = strategy + 1
         [] handle(r) = "propagate" ->
              result' = Raised /\ pc' = "done" /\ strategy' = strategy

\* what git_cherry_pick_strategy may give: None (git or GitPython missing, a
\* commit or the cherry-pick failed), or the content the cherry-pick leaves in
\* file.txt, which is for git to decide: "merged" stands for that content
git_cherry_pick_strategy == {None, Some(<<"merged">>)}

Try_search_and_replace ==
    /\ At("search_and_replace")
    /\ \E r \in {search_and_replace(search_text, replace_text, original_text)} :
          Attempted(r)
    /\ UNCHANGED <<search_text, replace_text, original_text, git_result, sub,
                   sub_tried, riVars, difVars, extVars>>

Try_try_dotdotdots ==
    /\ At("try_dotdotdots")
    /\ \E r \in {try_dotdotdots(search_text, replace_text, original_text)} :
          Attempted(r)
    /\ UNCHANGED <<search_text, replace_text, original_text, git_result, sub,
                   sub_tried, riVars, difVars, extVars>>

\* lambda t: search_and_replace(strip_blank_lines([t[0], t[1], t[2]]))
Try_strip_blank_lines ==
    /\ At("strip_blank_lines")
    /\ \E r \in {search_and_replace(strip_blank_lines(search_text),
                                      strip_blank_lines(replace_text),
                                      strip_blank_lines(original_text))} :
          Attempted(r)
    /\ UNCHANGED <<search_text, replace_text, original_text, git_result, sub,
                   sub_tried, riVars, difVars, extVars>>

Try_replace_with_whitespace_flexibility ==
    /\ At("replace_with_whitespace_flexibility")
    /\ \E r \in {replace_with_whitespace_flexibility(search_text, replace_text,
                                                       original_text)} :
          Attempted(r)
    /\ UNCHANGED <<search_text, replace_text, original_text, git_result, sub,
                   sub_tried, riVars, difVars, extVars>>

\* apply_comprehensive_preprocessing is entered
Enter_apply_comprehensive_preprocessing ==
    /\ At("apply_comprehensive_preprocessing")
    /\ pc' = "preprocessing"
    /\ sub' = 1
    /\ sub_tried' = <<>>
    /\ UNCHANGED <<search_text, replace_text, original_text, git_result,
                   strategy, tried, result, riVars, difVars, extVars>>

\* the sub-strategy k is tried: a truthy result is returned, and is what
\* strategy 5 gives the cascade; an exception leaves
\* apply_comprehensive_preprocessing, and is what strategy 5 gives the cascade
TrySub(k) ==
    /\ pc = "preprocessing"
    /\ sub = k
    /\ \E r \in {sub_strategy(k, search_text, replace_text, original_text)} :
          /\ sub_tried' = Append(sub_tried, [k |-> k, outcome |-> r.kind])
          /\ IF r.kind = "raise" \/ Truthy(r)
             THEN /\ sub' = 0
                  /\ Attempted(r)
             ELSE /\ sub' = k + 1
                  /\ UNCHANGED <<strategy, tried, result, pc>>
    /\ UNCHANGED <<search_text, replace_text, original_text, git_result,
                   riVars, difVars, extVars>>

Sub_try_blank_line_stripping_only == TrySub(1)
Sub_try_whitespace_normalization == TrySub(2)
Sub_try_indent_alignment == TrySub(3)
Sub_try_relative_indentation == TrySub(4)
Sub_try_relative_with_blank_stripping == TrySub(5)
Sub_try_relative_with_whitespace_norm == TrySub(6)
Sub_try_all_preprocessing == TrySub(7)

\* the loop of apply_comprehensive_preprocessing ends: return None
Leave_apply_comprehensive_preprocessing ==
    /\ pc = "preprocessing"
    /\ sub = 8
    /\ sub' = 0
    /\ tried' = Append(tried, [name |-> strategies[strategy], outcome |-> "none"])
    /\ strategy' = strategy + 1
    /\ pc' = "loop"
    /\ UNCHANGED <<search_text, replace_text, original_text, git_result,
                   sub_tried, result, riVars, difVars, extVars>>

Try_git_cherry_pick_strategy ==
    /\ At("git_cherry_pick_strategy")
    /\ \E r \in git_cherry_pick_strategy :
          /\ git_result' = r
          /\ Attempted(r)
    /\ UNCHANGED <<search_text, replace_text, original_text, sub, sub_tried,
                   riVars, difVars, extVars>>

\* lambda t: fuzzy_search_and_replace(t, threshold=0.7)
Try_fuzzy_search_and_replace ==
    /\ At("fuzzy_search_and_replace")
    /\ \E r \in {fuzzy_search_and_replace(search_text, replace_text, original_text,
                                            <<ThresholdNum, ThresholdDen>>)} :
          Attempted(r)
    /\ UNCHANGED <<search_text, replace_text, original_text, git_result, sub,
                   sub_tried, riVars, difVars, extVars>>

\* the loop ends: return None
ReturnNone ==
    /\ pc = "loop"
    /\ strategy > Len(strategies)
    /\ result' = None
    /\ pc' = "done"
    /\ UNCHANGED <<search_text, replace_text, original_text, git_result,
                   strategy, tried, sub, sub_tried, riVars, difVars, extVars>>

NextCascade ==
    \/ Try_search_and_replace
    \/ Try_try_dotdotdots
    \/ Try_strip_blank_lines
    \/ Try_replace_with_whitespace_flexibility
    \/ Enter_apply_comprehensive_preprocessing
    \/ Sub_try_blank_line_stripping_only
    \/ Sub_try_whitespace_normalization
    \/ Sub_try_indent_alignment
    \/ Sub_try_relative_indentation
    \/ Sub_try_relative_with_blank_stripping
    \/ Sub_try_relative_with_whitespace_norm
    \/ Sub_try_all_preprocessing
    \/ Leave_apply_comprehensive_preprocessing
    \/ Try_git_cherry_pick_strategy
    \/ Try_fuzzy_search_and_replace
    \/ ReturnNone

(***************************************************************************)
(* The calls of flexible_search_and_replace that are explored.             *)
(***************************************************************************)

MaxOriginalLen == 4
MaxBlock == 2
MaxIndentLevel == 2
MaxDotsLines == 3

Call(s, r, o) == [search |-> s, replace |-> r, original |-> o]

\* short texts over a and b: repeated and overlapping occurrences
ExactCalls ==
    { Call(s, r, o) : s \in SeqsUpTo({"a", "b"}, 2),
                      r \in {<<>>, <<"c">>, <<"a", "a">>},
                      o \in SeqsUpTo({"a", "b"}, MaxOriginalLen) }

\* a line at an indentation level of four spaces
Indented(level, content) == Repeat(SP, 4 * level) \o content

IndentedBlock(level, block) ==
    str_join(<<NL>>, [i \in 1..Len(block) |-> Indented(level, block[i])])

Blocks(S) == SeqsUpTo(S, MaxBlock) \ {<<>>}

\* a block of lines searched for at one indentation level, and present in the
\* original at another, under a header and over a footer
BlockReplaces(si) ==
    { IndentedBlock(si, rb) : rb \in Blocks({<<"c">>, <<"a">>}) }
        \cup {<<>>, Indented(si, <<>>)}

BlockHeaders(oi) == {<<>>, Indented(Max(oi - 1, 0), <<"h", ":", NL>>)}

BlockCallsAt(si, oi) ==
    { Call(IndentedBlock(si, b) \o ss,
           r,
           h \o IndentedBlock(oi, b) \o t) :
        b \in Blocks({<<"a">>, <<"b">>}),
        ss \in {<<>>, <<NL>>},
        r \in BlockReplaces(si),
        h \in BlockHeaders(oi),
        t \in {<<>>, <<NL, "t">>} }

BlockCalls ==
    UNION { BlockCallsAt(si, oi) : si \in 0..MaxIndentLevel, oi \in 0..MaxIndentLevel }

\* a search of three letters and an original that has a space more
Insert(w, k, c) == Take(w, k) \o <<c>> \o Drop(w, k)

FuzzyCalls ==
    { Call(s, <<"c">>, Insert(w, k, SP) \o t) :
        s \in [1..3 -> {"a", "b"}], w \in [1..3 -> {"a", "b"}],
        k \in 0..3, t \in {<<>>, <<NL, "b">>} }

\* search and replace of two pieces around an ellipsis line
DotsCalls ==
    { Call(a \o <<NL>> \o d \o <<NL>> \o b,
           ra \o <<NL>> \o d \o <<NL>> \o rb,
           str_join(<<NL>>, ls)) :
        a \in {<<"x">>, <<"y">>}, b \in {<<"x">>, <<"y">>},
        d \in {<<".", ".", ".">>, <<ELLIPSIS>>},
        ra \in {<<"X">>, <<"x", NL, "y">>},
        rb \in {<<"Y">>, <<>>},
        ls \in SeqsUpTo({<<"x">>, <<"y">>, <<"q">>, <<"x", SP, "y">>}, MaxDotsLines) }

\* a search with white space, and an original that spells the pattern
\* replace_with_whitespace_flexibility makes of it
PatternCalls ==
    { Call(<<"a", w, "b">>, <<"c">>, o) :
        w \in {SP, TAB},
        o \in { <<"a", "\\", "s", "s", "b">>, <<"a", "\\", "s", "b">>,
                <<"a", "\\", "s", "b", NL, "a", "\\", "s", "s", "s", "b">> } }

Calls == ExactCalls \cup BlockCalls \cup FuzzyCalls \cup DotsCalls \cup PatternCalls

InitCascadeWith(calls) ==
    /\ \E c \in calls :
          /\ search_text = c.search
          /\ replace_text = c.replace
          /\ original_text = c.original
    /\ git_result = None
    /\ strategy = 1
    /\ tried = <<>>
    /\ sub = 0
    /\ sub_tried = <<>>
    /\ result = None
    /\ pc = "loop"
    /\ IdleIndent
    /\ IdleDiff
    /\ IdleExt

InitCascade == InitCascadeWith(Calls)

SpecCascade == InitCascade /\ [][NextCascade]_vars

(***************************************************************************)
(* Properties of flexible_search_and_replace.                              *)
(***************************************************************************)

\* the order of the strategies the specification gives
SpecifiedOrder ==
    <<"search_and_replace", "try_dotdotdots", "strip_blank_lines",
      "replace_with_whitespace_flexibility", "apply_comprehensive_preprocessing",
      "git_cherry_pick_strategy", "fuzzy_search_and_replace">>

\* what the strategy of this name gives on the texts of the call, computed on
\* its own; for git, what git gave
Outcome(name) ==
    CASE name = "search_and_replace" ->
            search_and_replace(search_text, replace_text, original_text)
      [] name = "try_dotdotdots" ->
            try_dotdotdots(search_text, replace_text, original_text)
      [] name = "strip_blank_lines" ->
            search_and_replace(strip_blank_lines(search_text),
                               strip_blank_lines(replace_text),
                               strip_blank_lines(original_text))
      [] name = "replace_with_whitespace_flexibility" ->
            replace_with_whitespace_flexibility(search_text, replace_text,
                                                original_text)
      [] name = "apply_comprehensive_preprocessing" ->
            apply_comprehensive_preprocessing(search_text, replace_text,
                                              original_text)
      [] name = "git_cherry_pick_strategy" -> git_result
      [] name = "fuzzy_search_and_replace" ->
            fuzzy_search_and_replace(search_text, replace_text, original_text,
                                     <<7, 10>>)

Last(q) == q[Len(q)]

\* C1: the strategies are attempted in the fixed order exact, ellipsis,
\* blank-line-stripped exact, whitespace regex, comprehensive preprocessing,
\* git, fuzzy at 0.7, each at most once; none is attempted after the first
\* that matches, the value returned is that first match, and None is
\* returned only when all seven gave no match or raised.
C1_FirstMatchInFixedOrder ==
    /\ Len(tried) <= Len(SpecifiedOrder)
    /\ \A j \in 1..Len(tried) :
          /\ tried[j].name = SpecifiedOrder[j]
          /\ tried[j].outcome = "match" =>
                /\ j = Len(tried)
                /\ pc = "done"
                /\ \E r \in {Outcome(tried[j].name)} :
                      r.kind = "match" /\ result = r
          /\ tried[j].outcome # "match" =>
                \/ tried[j].outcome = "raise"
                \/ Outcome(tried[j].name) = None
    /\ pc = "done" =>
          IF result = None
          THEN /\ Len(tried) = Len(SpecifiedOrder)
               /\ \A j \in 1..Len(tried) : tried[j].outcome \in {"none", "raise"}
          ELSE /\ tried # <<>>
               /\ Last(tried).outcome = "match"

\* a call where six strategies give no match and the fuzzy strategy, the last
\* of the seven, gives the result
C1_Witness ==
    /\ pc = "done"
    /\ Len(tried) = 7
    /\ \A j \in 1..6 : tried[j].outcome = "none"
    /\ Last(tried).name = "fuzzy_search_and_replace"
    /\ Last(tried).outcome = "match"
    /\ result.kind = "match"

\* C2: a top-level strategy that raises counts as no match, the strategies
\* after it are still attempted in order, and flexible_search_and_replace
\* never raises to its caller.
C2_ExceptionAbsorbed ==
    /\ result.kind # "raise"
    /\ \A j \in 1..Len(tried) :
          tried[j].outcome = "raise" =>
             /\ j < Len(tried) => tried[j + 1].name = SpecifiedOrder[j + 1]
             /\ pc = "done" =>
                   /\ j < Len(SpecifiedOrder) => Len(tried) > j
                   /\ \/ Last(tried).outcome = "match" /\ result.kind = "match"
                      \/ Len(tried) = Len(SpecifiedOrder) /\ result = None

\* a call where the comprehensive preprocessing raised, and the fuzzy strategy,
\* two strategies later, gave the result of the call
C2_Witness ==
    /\ pc = "done"
    /\ \E j \in 1..Len(tried) :
          /\ tried[j].name = "apply_comprehensive_preprocessing"
          /\ tried[j].outcome = "raise"
    /\ Len(tried) = 7
    /\ Last(tried).outcome = "match"
    /\ result.kind = "match"

\* C3: inside apply_comprehensive_preprocessing a sub-strategy that raises
\* counts as no match: the sub-strategies after it are still attempted.
C3_SubStrategyExceptionAbsorbed ==
    \A j \in 1..Len(sub_tried) :
       sub_tried[j].outcome = "raise" /\ j < 7 =>
          \/ pc = "preprocessing"
          \/ Len(sub_tried) > j

RECURSIVE ReplaceEach(_, _, _, _)
\* original from position p on, each occurrence of search met from left to
\* right replaced, the characters of no occurrence as they are
ReplaceEach(search, replace, original, p) ==
    IF p > Len(original)
    THEN IF search = <<>> THEN replace ELSE <<>>
    ELSE IF OccursAt(search, original, p)
         THEN IF search = <<>>
              THEN replace \o <<original[p]>>
                   \o ReplaceEach(search, replace, original, p + 1)
              ELSE replace \o ReplaceEach(search, replace, original, p + Len(search))
         ELSE <<original[p]>> \o ReplaceEach(search, replace, original, p + 1)

Occurrences(search, original) ==
    {p \in 1..(Len(original) + 1) : OccursAt(search, original, p)}

\* C4: when search occurs verbatim in original the result is original with
\* every non-overlapping left-to-right occurrence replaced; with exactly one
\* occurrence it is the naive single replacement.
C4_ExactReplaceAll ==
    (pc = "done" /\ Occurrences(search_text, original_text) # {}) =>
       /\ result = Some(ReplaceEach(search_text, replace_text, original_text, 1))
       /\ \A p \in Occurrences(search_text, original_text) :
             Occurrences(search_text, original_text) = {p} =>
                result = Some(Take(original_text, p - 1) \o replace_text
                              \o Drop(original_text, p - 1 + Len(search_text)))

\* a call whose search occurs more than once in original, with occurrences
\* that overlap
C4_Witness ==
    /\ pc = "done"
    /\ search_text # <<>>
    /\ \E p, q \in Occurrences(search_text, original_text) :
          p < q /\ q < p + Len(search_text)
    /\ \E p, q \in Occurrences(search_text, original_text) :
          q >= p + Len(search_text)
    /\ result.kind = "match"
    /\ result.text # original_text

\* a line four spaces deeper
Deeper(line) == Repeat(SP, 4) \o line

\* the line is indented by exactly four spaces
FourSpaces(line) ==
    /\ Len(line) > 4
    /\ Take(line, 4) = Repeat(SP, 4)
    /\ ~IsSpace(line[5])

\* the 0-based lines of original where the lines of search stand four spaces
\* deeper
DeeperAt(search_lines, original_ls) ==
    {i \in 0..(Len(original_ls) - Len(search_lines)) :
        \A k \in 1..Len(search_lines) :
           original_ls[i + k] = Deeper(search_lines[k])}

\* search is a block of lines at four spaces, replace a block of as many
\* lines at four spaces, and original has the lines of search at eight spaces
C9_Applies ==
    LET search_lines == splitlines(search_text)
        replace_lines == splitlines(replace_text)
        original_ls == splitlines(original_text)
    IN /\ Len(search_lines) >= 2
       /\ \A k \in 1..Len(search_lines) : FourSpaces(search_lines[k])
       /\ Len(replace_lines) = Len(search_lines)
       /\ \A k \in 1..Len(replace_lines) : FourSpaces(replace_lines[k])
       /\ DeeperAt(search_lines, original_ls) # {}
       /\ ~Contains(search_text, original_text)

\* the lines of original with the block at i replaced by the lines of replace
\* at eight spaces
C9_Expected(i) ==
    LET search_lines == splitlines(search_text)
        replace_lines == splitlines(replace_text)
        original_ls == splitlines(original_text)
    IN SubSeq(original_ls, 1, i)
       \o [k \in 1..Len(replace_lines) |-> Deeper(replace_lines[k])]
       \o SubSeq(original_ls, i + Len(search_lines) + 1, Len(original_ls))

\* C9: a block searched at 4 spaces and present at 8 spaces is matched by the
\* indentation alignment or a relative-indentation sub-strategy, the
\* replaced block is at 8 spaces and every line outside it is as it was.
C9_IndentationPreserved ==
    (pc = "done" /\ C9_Applies) =>
       /\ result.kind = "match"
       /\ Last(tried).name = "apply_comprehensive_preprocessing"
       /\ Last(sub_tried).k \in 3..7
       /\ \E i \in DeeperAt(splitlines(search_text), splitlines(original_text)) :
             splitlines(result.text) = C9_Expected(i)

\* the lines of original that are this line
LinesEqual(ls, line) == {k \in 1..Len(ls) : ls[k] = line}

\* search is a over an ellipsis line over b, replace is A over the same
\* ellipsis line over B, and original has the line a once and, below it, the
\* line b once
C10_Applies(a, b, d, ra, rb) ==
    LET ls == splitlines(original_text)
    IN /\ search_text = a \o <<NL>> \o d \o <<NL>> \o b
       /\ replace_text = ra \o <<NL>> \o d \o <<NL>> \o rb
       /\ Cardinality(LinesEqual(ls, a)) = 1
       /\ Cardinality(LinesEqual(ls, b)) = 1
       /\ \A i \in LinesEqual(ls, a) : \A j \in LinesEqual(ls, b) : i < j
       /\ Cardinality(Occurrences(a, original_text)) = 1
       /\ Cardinality(Occurrences(b, original_text)) = 1

\* original with the line a replaced by A and the line b by B
C10_Expected(a, b, ra, rb) ==
    LET ls == splitlines(original_text)
    IN str_join(<<NL>>, [k \in 1..Len(ls) |->
                           IF ls[k] = a THEN ra
                           ELSE IF ls[k] = b THEN rb
                           ELSE ls[k]])

\* C10: with search = a, ellipsis, b and replace = A, ellipsis, B, and an
\* original that has a and b as separate exact substrings, the result has A
\* where a stood and B where b stood, the text between and around unchanged.
C10_EllipsisSegments ==
    \A a \in {<<"x">>, <<"y">>}, b \in {<<"x">>, <<"y">>},
       d \in {<<".", ".", ".">>, <<ELLIPSIS>>},
       ra \in {<<"X">>, <<"x", NL, "y">>}, rb \in {<<"Y">>, <<>>} :
       (pc = "done" /\ C10_Applies(a, b, d, ra, rb)) =>
          result = Some(C10_Expected(a, b, ra, rb))

(***************************************************************************)
(* Direct calls of single functions.                                       *)
(***************************************************************************)

\* the call fn(args) is made
InitCall(name, argsSet) ==
    /\ fn = name
    /\ args \in argsSet
    /\ ret = None
    /\ call_pc = "call"
    /\ IdleIndent /\ IdleCascade /\ IdleDiff
    /\ IdleGit /\ IdleFiles /\ IdleBridge

\* the call of the function of this name returns r
Returns(name, r) ==
    /\ call_pc = "call"
    /\ fn = name
    /\ ret' = r
    /\ call_pc' = "returned"
    /\ UNCHANGED <<fn, args, riVars, casVars, difVars,
                   gitVars, fsVars, bridgeVars>>

Returned(name) == call_pc = "returned" /\ fn = name

(***************************************************************************)
(* replace_with_whitespace_flexibility called on its own                   *)
(***************************************************************************)

MaxWsSearch == 3
MaxWsOriginal == 4

WhitespaceArgs ==
    { <<s, <<"c">>, o>> : s \in SeqsUpTo({"a", SP, NL}, MaxWsSearch),
                          o \in SeqsUpTo({"a", SP, NL}, MaxWsOriginal) }
      \cup { <<c.search, c.replace, c.original>> : c \in PatternCalls }

Call_replace_with_whitespace_flexibility ==
    \E r \in {replace_with_whitespace_flexibility(args[1], args[2], args[3])} :
       Returns("replace_with_whitespace_flexibility", r)

InitWhitespace == InitCall("replace_with_whitespace_flexibility", WhitespaceArgs)

SpecWhitespace == InitWhitespace /\ [][Call_replace_with_whitespace_flexibility]_vars

RECURSIVE Squeeze(_)
\* the text with every maximal run of whitespace made one space
Squeeze(s) ==
    IF s = <<>> THEN <<>>
    ELSE IF IsSpace(Head(s))
         THEN IF Len(s) > 1 /\ IsSpace(s[2]) THEN Squeeze(Tail(s))
              ELSE <<SP>> \o Squeeze(Tail(s))
         ELSE <<Head(s)>> \o Squeeze(Tail(s))

\* the regions <<p, e>> of original, from position p to before e, that equal
\* search up to the lengths and kinds of the runs of whitespace
WsRegions(search, original) ==
    { pe \in (1..(Len(original) + 1)) \X (1..(Len(original) + 1)) :
        /\ pe[1] <= pe[2]
        /\ Squeeze(SubSeq(original, pe[1], pe[2] - 1)) = Squeeze(search) }

\* the regions that begin first
FirstWsRegions(search, original) ==
    { pe \in WsRegions(search, original) :
        \A qe \in WsRegions(search, original) : pe[1] <= qe[1] }

\* C11: replace_with_whitespace_flexibility matches search with every run of
\* whitespace standing for any non-empty run of whitespace: it returns
\* original with the first such region replaced, and None only when original
\* has no such region.
C11_WhitespaceTolerantMatch ==
    Returned("replace_with_whitespace_flexibility") =>
       IF WsRegions(args[1], args[3]) = {}
       THEN ret = None
       ELSE \E pe \in FirstWsRegions(args[1], args[3]) :
               ret = Some(Take(args[3], pe[1] - 1) \o args[2]
                          \o Drop(args[3], pe[2] - 1))

(***************************************************************************)
(* parse_search_replace_blocks                                             *)
(***************************************************************************)

HeadMarker == <<"<", "<", "<", "<", "<", "<", "<", " ", "S", "E", "A", "R", "C", "H">>
DividerMarker == <<"=", "=", "=", "=", "=", "=", "=">>
TailMarker == <<">", ">", ">", ">", ">", ">", ">", " ", "R", "E", "P", "L", "A", "C", "E">>

\* re.compile(marker + r'\s*$').match(line), the line being one of splitlines()
marker_match(marker, line) ==
    /\ OccursAt(marker, line, 1)
    /\ \A k \in (Len(marker) + 1)..Len(line) : IsSpace(line[k])

\* the 0-based index of the first line from i on that the marker matches,
\* len(lines) when there is none: while i < len(lines) and not match: i += 1
RECURSIVE scan_to(_, _, _)
scan_to(marker, lines, i) ==
    IF i >= Len(lines) THEN i
    ELSE IF marker_match(marker, lines[i + 1]) THEN i
    ELSE scan_to(marker, lines, i + 1)

\* "if filename:" the line before the head, stripped, is not empty
filename_of(lines, i) ==
    IF i > 0 THEN str_strip(lines[i]) ELSE <<>>

\* an incomplete block leaves the loop: what the function then returns,
\* with the results discarded
on_incomplete_discard(results) == <<>>

\* "break" at an incomplete block: the results so far are returned
on_incomplete(results) == results

\* the while loop of parse_search_replace_blocks from the 0-based line i on
RECURSIVE blocks_loop(_, _, _)
blocks_loop(lines, i, results) ==
    IF i >= Len(lines) THEN results
    ELSE IF marker_match(HeadMarker, lines[i + 1])
         THEN LET d == scan_to(DividerMarker, lines, i + 1)
                  t == scan_to(TailMarker, lines, d + 1)
                  entry == <<filename_of(lines, i),
                             str_join(<<NL>>, SubSeq(lines, i + 2, d)),
                             str_join(<<NL>>, SubSeq(lines, d + 2, t))>>
              IN IF d >= Len(lines) THEN on_incomplete(results)
                 ELSE IF t >= Len(lines) THEN on_incomplete(results)
                 ELSE blocks_loop(lines, t + 1,
                                  IF filename_of(lines, i) # <<>>
                                  THEN Append(results, entry)
                                  ELSE results)
         ELSE blocks_loop(lines, i + 1, results)

parse_search_replace_blocks(content) == blocks_loop(splitlines(content), 0, <<>>)

Call_parse_search_replace_blocks ==
    \E r \in {parse_search_replace_blocks(args[1])} :
       Returns("parse_search_replace_blocks", r)

\* the contents given to parse_search_replace_blocks: up to MaxSegments
\* segments, each a head marker with or without a filename line before it, a
\* divider and a tail marker; and every content of up to MaxParseLines lines
MaxSegments == 2
MaxParseLines == 4

ParseLines ==
    {HeadMarker, DividerMarker, TailMarker \o <<SP>>, <<"f">>, <<>>, <<SP, "g">>}

Segments ==
    { n \o <<HeadMarker>> \o <<<<"x">>>> \o d \o r \o t :
        n \in {<<>>, <<<<"f">>>>, <<<<"g", SP>>, <<>>>>, <<<<SP>>>>},
        d \in {<<>>, <<DividerMarker>>},
        r \in {<<>>, <<<<"y">>>>},
        t \in {<<>>, <<TailMarker>>} }

RECURSIVE Flatten(_)
Flatten(ss) == IF ss = <<>> THEN <<>> ELSE Head(ss) \o Flatten(Tail(ss))

ParseContents ==
    { str_join(<<NL>>, Flatten(ss)) \o e :
        ss \in SeqsUpTo(Segments, MaxSegments), e \in {<<>>, <<NL>>} }
    \cup { str_join(<<NL>>, ls) : ls \in SeqsUpTo(ParseLines, MaxParseLines) }

InitParseBlocks ==
    InitCall("parse_search_replace_blocks", {<<c>> : c \in ParseContents})

SpecParseBlocks == InitParseBlocks /\ [][Call_parse_search_replace_blocks]_vars

\* the line is the marker, white space after it allowed
IsMarkerLine(line, marker) == str_rstrip(line) = marker

\* the first line after line k (1-based) that is the marker, 0 when none
FirstMarkerAfter(lines, marker, k) ==
    LET js == {j \in (k + 1)..Len(lines) : IsMarkerLine(lines[j], marker)}
    IN IF js = {} THEN 0 ELSE CHOOSE j \in js : \A q \in js : j <= q

RECURSIVE GrammarBlocks(_, _)
\* the complete blocks of the lines after line k, in document order: the
\* line of the head marker, the search text and the replacement text
GrammarBlocks(lines, k) ==
    LET h == FirstMarkerAfter(lines, HeadMarker, k)
        d == FirstMarkerAfter(lines, DividerMarker, h)
        t == FirstMarkerAfter(lines, TailMarker, d)
    IN IF h = 0 \/ d = 0 \/ t = 0 THEN <<>>
       ELSE <<[head |-> h,
               search |-> str_join(<<NL>>, SubSeq(lines, h + 1, d - 1)),
               replace |-> str_join(<<NL>>, SubSeq(lines, d + 1, t - 1))]>>
            \o GrammarBlocks(lines, t)

RECURSIVE UnterminatedHead(_, _)
\* the line of the head marker of the unterminated trailing block, 0 when
\* the content has none
UnterminatedHead(lines, k) ==
    LET h == FirstMarkerAfter(lines, HeadMarker, k)
        d == FirstMarkerAfter(lines, DividerMarker, h)
        t == FirstMarkerAfter(lines, TailMarker, d)
    IN IF h = 0 THEN 0
       ELSE IF d = 0 \/ t = 0 THEN h
       ELSE UnterminatedHead(lines, t)

\* the lines before line h that are not empty
NonEmptyBefore(lines, h) == {j \in 1..(h - 1) : str_strip(lines[j]) # <<>>}

NearestNonEmpty(lines, h) ==
    str_strip(lines[CHOOSE j \in NonEmptyBefore(lines, h) :
                       \A q \in NonEmptyBefore(lines, h) : q <= j])

\* C12: the filename of every complete block is the nearest non-empty line
\* before its head marker, blank lines between them skipped, and a block is
\* dropped only when no non-empty line precedes its head marker.
C12_FilenameIsNearestNonEmptyLine ==
    Returned("parse_search_replace_blocks") =>
       LET lines == splitlines(args[1])
           named == SelectSeq(GrammarBlocks(lines, 0),
                              LAMBDA b : NonEmptyBefore(lines, b.head) # {})
       IN ret = [k \in 1..Len(named) |->
                   <<NearestNonEmpty(lines, named[k].head),
                     named[k].search, named[k].replace>>]

RECURSIVE IsSubsequence(_, _)
\* the elements of u are elements of v, in the order of v
IsSubsequence(u, v) ==
    IF u = <<>> THEN TRUE
    ELSE IF v = <<>> THEN FALSE
    ELSE IF Head(u) = Head(v) THEN IsSubsequence(Tail(u), Tail(v))
    ELSE IsSubsequence(u, Tail(v))

SearchReplaceOf(entries) ==
    [k \in 1..Len(entries) |-> <<entries[k][2], entries[k][3]>>]

RECURSIVE split_newline(_)
\* the text cut at every "\n": the lines that ^ and $ of re.MULTILINE see
split_newline(s) ==
    LET p == Find(<<NL>>, s, 1)
    IN IF p = 0 THEN <<s>>
       ELSE <<Take(s, p - 1)>> \o split_newline(Drop(s, p))

\* file_header_pattern matches the line: '+++ ' or '--- ' and one character
\* or more
file_header_match(line) ==
    /\ \/ OccursAt(<<"+", "+", "+", SP>>, line, 1)
       \/ OccursAt(<<"-", "-", "-", SP>>, line, 1)
    /\ Len(line) > 4

\* list(file_header_pattern.finditer(content)): the lines matched, in order
file_matches(lines) ==
    SelectSeq([k \in 1..Len(lines) |-> k], LAMBDA k : file_header_match(lines[k]))

\* the entry of the pair of matches i, i + 1 (0-based i): group(2) of the
\* second, stripped, and content[hunk_start:hunk_end].strip().splitlines()
diff_entry(lines, ms, i) ==
    LET second == ms[i + 2]
        hunk_end == IF i + 2 < Len(ms) THEN ms[i + 3] - 1 ELSE Len(lines)
    IN <<str_strip(Drop(lines[second], 4)),
         splitlines(str_strip(str_join(<<NL>>, SubSeq(lines, second + 1, hunk_end))))>>

RECURSIVE diff_pairs(_, _, _)
\* for i in range(0, len(file_matches), 2): if i + 1 < len(file_matches)
diff_pairs(lines, ms, i) ==
    IF i + 1 >= Len(ms) THEN <<>>
    ELSE <<diff_entry(lines, ms, i)>> \o diff_pairs(lines, ms, i + 2)

parse_unified_diff(content) ==
    diff_pairs(split_newline(content), file_matches(split_newline(content)), 0)

Call_parse_unified_diff ==
    \E r \in {parse_unified_diff(args[1])} : Returns("parse_unified_diff", r)

MaxDiffTextLines == 5

\* the lines of the contents: the two file headers, a hunk header, a context
\* line, the removal of the line "-- x" and the addition of the line "++ y",
\* and an empty line
DiffTextLines ==
    { <<"-", "-", "-", SP, "a">>, <<"+", "+", "+", SP, "b">>, <<"@", "@">>,
      <<SP, "c">>, <<"-", "-", "-", SP, "x">>, <<"+", "+", "+", SP, "y">>, <<>> }

DiffContents ==
    { str_join(<<NL>>, ls) : ls \in SeqsUpTo(DiffTextLines, MaxDiffTextLines) }

InitParseDiff == InitCall("parse_unified_diff", {<<c>> : c \in DiffContents})

SpecParseDiff == InitParseDiff /\ [][Call_parse_unified_diff]_vars

IsOldHeader(line) == OccursAt(<<"-", "-", "-", SP>>, line, 1) /\ Len(line) > 4
IsNewHeader(line) == OccursAt(<<"+", "+", "+", SP>>, line, 1) /\ Len(line) > 4

\* the lines where a file pair begins: a '--- ' header directly followed by a
\* '+++ ' header
FilePairs(lines) ==
    {j \in 1..(Len(lines) - 1) : IsOldHeader(lines[j]) /\ IsNewHeader(lines[j + 1])}

\* the file pairs in document order, a pair that begins on the '+++ ' line
\* of the pair before it left out
RECURSIVE PairsFrom(_, _)
PairsFrom(lines, k) ==
    LET js == {j \in FilePairs(lines) : j > k}
        j == CHOOSE q \in js : \A r \in js : q <= r
    IN IF js = {} THEN <<>> ELSE <<j>> \o PairsFrom(lines, j + 1)

\* the entries the grammar gives: the filename of the '+++ ' line of each
\* pair, and the lines from that line to the next pair or the end of the
\* content, white space around them stripped as parse_unified_diff strips it
GrammarDiffEntries(lines) ==
    LET ps == PairsFrom(lines, 0)
    IN [k \in 1..Len(ps) |->
          <<str_strip(Drop(lines[ps[k] + 1], 4)),
            splitlines(str_strip(str_join(<<NL>>,
               SubSeq(lines, ps[k] + 2,
                      IF k < Len(ps) THEN ps[k + 1] - 1 ELSE Len(lines)))))>>]

\* C14: every entry has the filename of a '+++ ' header that directly follows
\* a '--- ' header, and the lines between that header and the next '--- '
\* file header or the end of the content, also when lines of a hunk begin
\* with '--- ' or '+++ ' and when a header line is unpaired.
C14_EntriesFollowFilePairs ==
    Returned("parse_unified_diff") =>
       ret = GrammarDiffEntries(split_newline(args[1]))

(***************************************************************************)
(* fuzzy_search_and_replace called on its own, at several thresholds       *)
(***************************************************************************)

MaxFuzzySearchLines == 2
MaxFuzzyOriginalLines == 3

\* the thresholds 0.0, 0.7, 0.8 (the default) and 1.0, as fractions
Thresholds == {<<0, 1>>, <<ThresholdNum, ThresholdDen>>, <<8, 10>>, <<1, 1>>}

FuzzyArgs ==
    { <<str_join(<<NL>>, sl), r, str_join(<<NL>>, ol), th>> :
        sl \in SeqsUpTo({<<"a">>, <<"a", "b">>, <<"b">>}, MaxFuzzySearchLines) \ {<<>>},
        r \in {<<>>, <<"x">>, <<"x", NL, "y">>},
        ol \in SeqsUpTo({<<>>, <<"a">>, <<"a", "b">>, <<"b">>, <<"c">>}, MaxFuzzyOriginalLines),
        th \in Thresholds }

Call_fuzzy_search_and_replace ==
    \E r \in {fuzzy_search_and_replace(args[1], args[2], args[3], args[4])} :
       Returns("fuzzy_search_and_replace", r)

InitFuzzy == InitCall("fuzzy_search_and_replace", FuzzyArgs)

SpecFuzzy == InitFuzzy /\ [][Call_fuzzy_search_and_replace]_vars

\* the candidate windows <<first line, last line>> of original for a search
\* of n lines: every run of lines of a length within a tenth of n
CandidateWindows(n, original_ls) ==
    { w \in (1..Len(original_ls)) \X (1..Len(original_ls)) :
        /\ w[1] <= w[2]
        /\ w[2] - w[1] + 1 >= Max(1, (9 * n) \div 10)
        /\ w[2] - w[1] + 1 <= (11 * n) \div 10 }

WindowRatio(search, original_ls, w) ==
    ratio(str_join(<<NL>>, SubSeq(original_ls, w[1], w[2])), search)

\* the windows of the greatest ratio
BestWindows(search, original_ls) ==
    LET ws == CandidateWindows(Len(splitlines(search)), original_ls)
    IN { w \in ws : \A v \in ws :
            ~RatioLess(WindowRatio(search, original_ls, w),
                       WindowRatio(search, original_ls, v)) }

\* C15: fuzzy_search_and_replace returns None exactly when the greatest ratio
\* over the candidate windows is below the threshold, or there is no window;
\* otherwise, at every threshold in [0, 1], the result is the lines of
\* original with those of the best window replaced by the lines of replace.
C15_BestWindowReplaced ==
    Returned("fuzzy_search_and_replace") =>
       LET original_ls == splitlines(args[3])
           best == BestWindows(args[1], original_ls)
       IN IF \/ best = {}
             \/ \E w \in best : RatioLess(WindowRatio(args[1], original_ls, w), args[4])
          THEN ret = None
          ELSE \E w \in best :
                  ret = Some(str_join(<<NL>>,
                           SubSeq(original_ls, 1, w[1] - 1)
                           \o splitlines(args[2])
                           \o SubSeq(original_ls, w[2] + 1, Len(original_ls))))

(***************************************************************************)
(* git_cherry_pick_strategy, statement by statement: the temporary         *)
(* directory, the inner try/except around the cherry-pick, the finally     *)
(* clause and the outer bare except.                                       *)
(***************************************************************************)

GitTexts == {<<>>, <<"a">>, <<"b">>}

\* texts = (search_text, replace_text, original_text)
GitArgs == {<<s, r, o>> : s \in GitTexts, r \in GitTexts, o \in GitTexts}

InitGit ==
    /\ fn = "git_cherry_pick_strategy"
    /\ args \in GitArgs
    /\ ret = None
    /\ call_pc = "call"
    /\ git_pc = "import" /\ temp_dir = "none" /\ pending = None
    /\ IdleIndent /\ IdleCascade /\ IdleDiff /\ IdleFiles /\ IdleBridge

GitFrame == UNCHANGED <<fn, args, riVars, casVars, difVars, fsVars, bridgeVars>>

\* git commit exits with an error when the file it is given has the content
\* of HEAD (nothing to commit); otherwise it is for the installation to decide
\* (no identity configured, no git executable, a full disk)
commit_outcomes(content, head) == IF content = head THEN {FALSE} ELSE BOOLEAN

\* git cherry-pick exits with an error when the pick would leave an empty
\* commit (the replace text is the original already) and on a conflict, which
\* is for git's merge to decide
cherry_pick_outcomes(replace, original) ==
    IF replace = original THEN {FALSE} ELSE BOOLEAN

\* a statement of the inner try block (939-965): it passes, or it raises and
\* control enters the finally clause with the exception pending
GitStep(at, ok, next) ==
    /\ git_pc = at
    /\ IF ok THEN git_pc' = next /\ pending' = pending
             ELSE git_pc' = "finally" /\ pending' = Raised
    /\ UNCHANGED <<temp_dir, ret, call_pc>>
    /\ GitFrame

\* import git (928): GitPython may be missing, and the exception goes to the
\* outer except before any directory exists
Git_import ==
    /\ git_pc = "import"
    /\ \E ok \in BOOLEAN : git_pc' = IF ok THEN "mkdtemp" ELSE "except"
    /\ UNCHANGED <<temp_dir, pending, ret, call_pc>>
    /\ GitFrame

\* temp_dir = tempfile.mkdtemp() (937), outside the inner try
Git_mkdtemp ==
    /\ git_pc = "mkdtemp"
    /\ \E ok \in BOOLEAN :
          IF ok THEN temp_dir' = "exists" /\ git_pc' = "init"
                ELSE temp_dir' = temp_dir /\ git_pc' = "except"
    /\ UNCHANGED <<pending, ret, call_pc>>
    /\ GitFrame

Git_init == \E ok \in BOOLEAN : GitStep("init", ok, "commit_original")

Git_commit_original ==
    \E ok \in BOOLEAN : GitStep("commit_original", ok, "commit_search")

Git_commit_search ==
    \E ok \in commit_outcomes(args[1], args[3]) :
       GitStep("commit_search", ok, "commit_replace")

Git_commit_replace ==
    \E ok \in commit_outcomes(args[2], args[1]) :
       GitStep("commit_replace", ok, "checkout")

Git_checkout == \E ok \in BOOLEAN : GitStep("checkout", ok, "cherry_pick")

\* the inner try (968-977): a failed cherry-pick or a failed read is caught
\* by the inner bare except, which returns None through the finally clause
Git_cherry_pick ==
    /\ git_pc = "cherry_pick"
    /\ \E ok \in cherry_pick_outcomes(args[2], args[3]) :
          IF ok THEN git_pc' = "read" /\ pending' = pending
                ELSE git_pc' = "finally" /\ pending' = None
    /\ UNCHANGED <<temp_dir, ret, call_pc>>
    /\ GitFrame

\* new_text = f.read(); return new_text (972-974): "merged" stands for the
\* content that the cherry-pick left in file.txt
Git_read ==
    /\ git_pc = "read"
    /\ \E ok \in BOOLEAN :
          pending' = IF ok THEN Some(<<"merged">>) ELSE None
    /\ git_pc' = "finally"
    /\ UNCHANGED <<temp_dir, ret, call_pc>>
    /\ GitFrame

\* finally: shutil.rmtree(temp_dir) (978-979). When rmtree raises (it is
\* called without ignore_errors or an error handler, and git's object files
\* are read-only, which rmtree does not remove on Windows), its exception
\* replaces the pending return or exception and goes to the outer except.
Git_finally ==
    /\ git_pc = "finally"
    /\ \E removed \in BOOLEAN :
          IF removed
             THEN /\ temp_dir' = "removed"
                  /\ pending' = pending
                  /\ git_pc' = IF pending = Raised THEN "except" ELSE "return"
             ELSE /\ temp_dir' = temp_dir
                  /\ pending' = Raised
                  /\ git_pc' = "except"
    /\ UNCHANGED <<ret, call_pc>>
    /\ GitFrame

\* the outer bare except (980-982)
Git_except ==
    /\ git_pc = "except"
    /\ ret' = None
    /\ call_pc' = "returned"
    /\ git_pc' = "done"
    /\ UNCHANGED <<temp_dir, pending>>
    /\ GitFrame

\* the return statement of the inner try completes after the finally clause
Git_return ==
    /\ git_pc = "return"
    /\ ret' = pending
    /\ call_pc' = "returned"
    /\ git_pc' = "done"
    /\ UNCHANGED <<temp_dir, pending>>
    /\ GitFrame

NextGit ==
    \/ Git_import
    \/ Git_mkdtemp
    \/ Git_init
    \/ Git_commit_original
    \/ Git_commit_search
    \/ Git_commit_replace
    \/ Git_checkout
    \/ Git_cherry_pick
    \/ Git_read
    \/ Git_finally
    \/ Git_except
    \/ Git_return

\* the function is straight-line code whose calls block until they are over:
\* a call that has not returned takes its next step
SpecGit == InitGit /\ [][NextGit]_vars /\ WF_vars(NextGit)

\* C16: every execution of git_cherry_pick_strategy that creates its
\* temporary directory removes it before it returns, on every exit path, and
\* the function returns a value (None on every failure path), never raises.
C16_TempDirRemovedOnEveryPath ==
    /\ [](temp_dir = "exists" => <>(temp_dir = "removed"))
    /\ [](Returned("git_cherry_pick_strategy") =>
            /\ temp_dir # "exists"
            /\ ret # Raised
            /\ (pending # Some(<<"merged">>) => ret = None))

\* the part of C16 that the code keeps: whenever rmtree removed the
\* directory the call returns what the inner try decided, and it never raises
C16_WhenRmtreeSucceeds ==
    Returned("git_cherry_pick_strategy") =>
       /\ ret \in git_cherry_pick_strategy
       /\ (temp_dir = "removed" /\ pending # Raised => ret = pending)
       /\ (temp_dir = "none" => ret = None)

(***************************************************************************)
(* The server's editing tools on a filesystem: smart_edit and edit_block.  *)
(* A location is the sequence of directory names from the filesystem root; *)
(* a path is what pathlib makes of a string, and it keeps its ".." parts.  *)
(* The filesystem has no symbolic links and every ".." of the paths below  *)
(* follows an existing directory, so that a path denotes the location that *)
(* dropping each ".." with the name before it gives.                       *)
(***************************************************************************)

SLASH == "/"
DOTDOT == <<".", ".">>

RECURSIVE split_slash(_)
split_slash(s) ==
    LET p == Find(<<SLASH>>, s, 1)
    IN IF p = 0 THEN <<s>>
       ELSE <<Take(s, p - 1)>> \o split_slash(Drop(s, p))

\* Path(s): the parts between slashes, without the empty ones and the "."
IsPart(c) == c # <<>> /\ c # <<".">>
Path(s) ==
    [absolute |-> StartsWith(s, SLASH),
     parts |-> SelectSeq(split_slash(s), IsPart)]

\* PROJECT_ROOT = Path.cwd().absolute(): the directory p of the root
PROJECT_ROOT == [absolute |-> TRUE, parts |-> << <<"p">> >>]

\* PROJECT_ROOT / path, and path.absolute() with the project root as cwd
joinpath(base, path) ==
    IF path.absolute THEN path
    ELSE [absolute |-> TRUE, parts |-> base.parts \o path.parts]

\* path.parents: the path without its last part, without its last two, ...
parents(path) ==
    {[absolute |-> path.absolute, parts |-> Take(path.parts, k)] :
        k \in 0..(Len(path.parts) - 1)}

parent(path) ==
    [absolute |-> path.absolute,
     parts |-> Take(path.parts, Max(Len(path.parts) - 1, 0))]

is_safe_path(path) ==
    \/ PROJECT_ROOT \in parents(joinpath(PROJECT_ROOT, path))
    \/ joinpath(PROJECT_ROOT, path) = PROJECT_ROOT

\* the location that the operating system finds for an absolute path
RECURSIVE resolve(_, _)
resolve(parts, loc) ==
    IF parts = <<>> THEN loc
    ELSE IF Head(parts) = DOTDOT
         THEN resolve(Tail(parts), Take(loc, Max(Len(loc) - 1, 0)))
         ELSE resolve(Tail(parts), Append(loc, Head(parts)))

Denotes(path) == resolve(path.parts, <<>>)

Under(root, loc) == Len(root) <= Len(loc) /\ Take(loc, Len(root)) = root

\* path.exists(), path.is_file() on the files f and the directories d
exists(path, f, d) == Denotes(path) \in (DOMAIN f) \cup d
is_file(path, f) == Denotes(path) \in DOMAIN f

Prefixes(loc) == {Take(loc, k) : k \in 0..Len(loc)}

\* path.mkdir(parents=True, exist_ok=True): raises when the path or one of
\* its ancestors is a file, else leaves every ancestor and the path a directory
mkdir_raises(path, f) == Prefixes(Denotes(path)) \cap DOMAIN f # {}
mkdir(path, d) == d \cup Prefixes(Denotes(path))

\* open(path, 'w'): raises when the path is a directory or its directory
\* does not exist; f.write(text) makes text the file's content
open_w_raises(path, d) ==
    LET loc == Denotes(path)
    IN loc \in d \/ Take(loc, Max(Len(loc) - 1, 0)) \notin d
write(f, loc, text) ==
    [l \in (DOMAIN f) \cup {loc} |-> IF l = loc THEN text ELSE f[l]]

\* Python's "not x" for a string or None
falsy(x) == x = None \/ x.text = <<>>

\* what a tool call leaves: the kind of its answer ("error", "info",
\* "preview", "done", or "raise" for an exception out of the tool), the
\* filesystem, and the file operations it made
Out(kind, f, d, io) == [ret |-> [kind |-> kind, text |-> <<>>],
                        files |-> f, dirs |-> d, io |-> io]

\* flexible_search_and_replace as the tools see it: the result of the first
\* strategy when it matches, else whatever a later strategy returns (nothing,
\* an empty text, a text)
flexible_search_and_replace(search, replace, original) ==
    LET first == search_and_replace(search, replace, original)
    IN IF first # None THEN {first}
       ELSE {None, Some(<<>>), Some(<<"u">>)}

\* apply_unified_diff, find_function_in_file with the splice of 981-983,
\* find_pattern_in_file with re.sub: pure functions of texts, of which the
\* tools only use whether they found something and the text they give
EditResults == {None, Some(<<>>), Some(<<"u">>)}

smart_edit(a, f, d) ==
    LET path == joinpath(PROJECT_ROOT, Path(a.file_path))
        loc == Denotes(path)
        file_exists == exists(path, f, d) /\ is_file(path, f)
        current_content == IF file_exists THEN f[loc] ELSE <<>>
        rd == IF file_exists THEN {<<"read", loc>>} ELSE {}
        Error == {Out("error", f, d, rd)}
        \* open(path, 'w') and f.write(text) inside the try of line 825
        Save(text, d2, io) ==
            IF open_w_raises(path, d2) THEN {Out("error", f, d2, io)}
            ELSE {Out("done", write(f, loc, text), d2,
                      io \cup {<<"write", loc>>})}
        \* path.parent.mkdir(parents=True, exist_ok=True) and the write
        MkdirSave(text) ==
            IF mkdir_raises(parent(path), f) THEN Error
            ELSE Save(text, mkdir(parent(path), d),
                      rd \cup IF mkdir(parent(path), d) # d
                                THEN {<<"mkdir", Denotes(parent(path))>>}
                                ELSE {})
        \* "if not confirm: return preview", then the write
        Apply(text) ==
            IF ~a.confirm THEN {Out("preview", f, d, rd)}
            ELSE Save(text, d, rd)
        ApplyResult(u) == IF falsy(u) THEN Error ELSE Apply(u.text)
        op == a.operation
        format_type ==
            IF ~falsy(a.edit_format) THEN a.edit_format.text
            ELSE IF Contains(HeadMarker, a.new_content.text)
                 THEN <<"search_replace">>
            ELSE IF /\ OccursAt(<<"-", "-", "-">>, a.new_content.text, 1)
                    /\ Contains(<<"+", "+", "+", SP>>, a.new_content.text)
                 THEN <<"unified_diff">>
            ELSE <<"whole_file">>
    IN IF ~is_safe_path(path) THEN {Out("error", f, d, {})}
       ELSE IF /\ ~file_exists
               /\ op \notin {"preview", "append", "write", "edit_block"}
            THEN {Out("error", f, d, {})}
       ELSE CASE op = "preview" -> {Out("info", f, d, rd)}
         [] op = "edit_block" ->
              IF falsy(a.new_content) THEN Error
              ELSE IF ~file_exists
                   THEN LET parent_dir == parent(path)
                            made == ~exists(parent_dir, f, d)
                            d2 == IF made THEN mkdir(parent_dir, d) ELSE d
                            io2 == IF made
                                   THEN {<<"mkdir", Denotes(parent_dir)>>}
                                   ELSE {}
                        IN IF made /\ mkdir_raises(parent_dir, f) THEN Error
                           ELSE IF ~a.confirm
                                THEN {Out("preview", f, d2, io2)}
                           ELSE Save(a.new_content.text, d2, io2)
              ELSE IF format_type = <<"search_replace">>
                   THEN LET blocks ==
                              parse_search_replace_blocks(a.new_content.text)
                        IN IF blocks = <<>> THEN Error
                           ELSE UNION {ApplyResult(u) :
                                   u \in flexible_search_and_replace(
                                            blocks[1][2], blocks[1][3],
                                            current_content)}
              ELSE IF format_type = <<"unified_diff">>
                   THEN IF parse_unified_diff(a.new_content.text) = <<>>
                        THEN Error
                        ELSE UNION {ApplyResult(u) : u \in EditResults}
              ELSE IF format_type = <<"whole_file">>
                   THEN Apply(a.new_content.text)
              ELSE Error
         [] op = "update_function" ->
              IF falsy(a.function_name) \/ falsy(a.new_content) THEN Error
              ELSE Error \cup UNION {Apply(u.text) : u \in EditResults \ {None}}
         [] op = "replace" ->
              IF falsy(a.pattern) \/ a.new_content = None THEN Error
              ELSE IF a.regex_mode
                   THEN Error \cup
                        UNION {Apply(u.text) : u \in EditResults \ {None}}
              ELSE Error \cup UNION {ApplyResult(u) : u \in EditResults}
         [] op = "write" ->
              IF a.new_content = None THEN Error
              ELSE IF ~a.confirm THEN {Out("preview", f, d, rd)}
              ELSE MkdirSave(a.new_content.text)
         [] op = "append" ->
              IF a.new_content = None THEN Error
              ELSE IF ~a.confirm THEN {Out("preview", f, d, rd)}
              ELSE MkdirSave(
                     (IF current_content # <<>>
                         /\ current_content[Len(current_content)] # NL
                      THEN current_content \o <<NL>> ELSE current_content)
                     \o a.new_content.text)
         [] op = "delete" ->
              IF falsy(a.pattern) THEN Error
              ELSE IF a.regex_mode
                   THEN Error \cup
                        UNION {Apply(u.text) : u \in EditResults \ {None}}
              ELSE Error \cup UNION {ApplyResult(u) : u \in EditResults}
         [] OTHER -> Error

\* file_edits[str(path)] = (current_content, new_content): a dict keeps the
\* place of a key it already has
put(edits, path, new) ==
    IF \E k \in 1..Len(edits) : edits[k][1] = path
    THEN [k \in 1..Len(edits) |->
             IF edits[k][1] = path THEN <<path, new>> ELSE edits[k]]
    ELSE Append(edits, <<path, new>>)

DevNull == <<"/", "d", "e", "v", "/", "n", "u", "l", "l">>

\* the loops of edit_block over the entries from the i-th on (1198-1228 and
\* 1238-1263): the edits collected when every entry passes (ok), or the stop
\* at the first entry that makes the tool return an error
RECURSIVE collect(_, _, _, _, _, _, _)
collect(format, entries, i, edits, io, f, d) ==
    IF i > Len(entries) THEN {[ok |-> TRUE, edits |-> edits, io |-> io]}
    ELSE LET filename == entries[i][1]
             path == joinpath(PROJECT_ROOT, Path(filename))
             readable == exists(path, f, d) /\ is_file(path, f)
             current_content == IF readable THEN f[Denotes(path)] ELSE <<>>
             io2 == IF readable THEN io \cup {<<"read", Denotes(path)>>}
                    ELSE io
             Stop == {[ok |-> FALSE, edits |-> edits, io |-> io2]}
             Go(new) == collect(format, entries, i + 1,
                                put(edits, path, new), io2, f, d)
         IN IF ~is_safe_path(path)
            THEN {[ok |-> FALSE, edits |-> edits, io |-> io]}
            ELSE IF format = "search_replace"
            THEN IF ~readable /\ str_strip(entries[i][2]) # <<>> THEN Stop
                 ELSE IF str_strip(entries[i][2]) = <<>> /\ ~exists(path, f, d)
                      THEN Go(Some(entries[i][3]))
                 ELSE UNION {IF falsy(u) THEN Stop ELSE Go(u) :
                               u \in flexible_search_and_replace(
                                        entries[i][2], entries[i][3],
                                        current_content)}
            ELSE IF ~readable /\ ~OccursAt(DevNull, filename, 1) THEN Stop
                 ELSE UNION {IF falsy(u) /\ current_content # <<>>
                             THEN Stop ELSE Go(u) : u \in EditResults}

\* the loop that executes the edits from the k-th on (1286-1297): mkdir of
\* the parent, open for writing, write; an exception leaves the tool
RECURSIVE execute(_, _, _, _, _)
execute(edits, k, f, d, io) ==
    IF k > Len(edits) THEN Out("done", f, d, io)
    ELSE LET path == edits[k][1]
             new == edits[k][2]
             loc == Denotes(path)
             d2 == mkdir(parent(path), d)
             io2 == io \cup IF d2 # d THEN {<<"mkdir", Denotes(parent(path))>>}
                            ELSE {}
         IN IF mkdir_raises(parent(path), f) THEN Out("raise", f, d, io)
            ELSE IF open_w_raises(path, d2) THEN Out("raise", f, d2, io2)
            ELSE IF new = None
                 THEN Out("raise", write(f, loc, <<>>), d2,
                          io2 \cup {<<"write", loc>>})
            ELSE execute(edits, k + 1, write(f, loc, new.text), d2,
                         io2 \cup {<<"write", loc>>})

\* edit_block after its loops, for what they collected (1265-1299): the error
\* of the entry that stopped them, the preview, or the writes
finish(a, c, f, d) ==
    IF ~c.ok THEN Out("error", f, d, c.io)
    ELSE IF ~a.confirm
         THEN Out(IF \E k \in 1..Len(c.edits) : c.edits[k][2] = None
                  THEN "raise" ELSE "preview", f, d, c.io)
    ELSE execute(c.edits, 1, f, d, c.io)

edit_block(a, f, d) ==
    LET format_type ==
            IF Contains(HeadMarker, a.edit_content) THEN "search_replace"
            ELSE IF /\ OccursAt(<<"-", "-", "-">>, a.edit_content, 1)
                    /\ Contains(<<"+", "+", "+", SP>>, a.edit_content)
                 THEN "unified_diff"
            ELSE "unknown"
        entries ==
            IF format_type = "search_replace"
            THEN parse_search_replace_blocks(a.edit_content)
            ELSE parse_unified_diff(a.edit_content)
    IN IF format_type = "unknown" THEN {Out("error", f, d, {})}
       ELSE IF entries = <<>> THEN {Out("error", f, d, {})}
       ELSE {finish(a, c, f, d) :
               c \in collect(format_type, entries, 1, <<>>, {}, f, d)}

\* the tool call fn(args) is made on a filesystem and returns
CallTool(name, outcomes) ==
    /\ call_pc = "call"
    /\ fn = name
    /\ \E o \in outcomes :
          /\ files' = o.files
          /\ dirs' = o.dirs
          /\ io_log' = o.io
          /\ ret' = o.ret
    /\ call_pc' = "returned"
    /\ UNCHANGED <<fn, args, riVars, casVars, difVars, gitVars, bridgeVars>>

Call_smart_edit == CallTool("smart_edit", smart_edit(args, files, dirs))

Call_edit_block == CallTool("edit_block", edit_block(args, files, dirs))

NextServer == Call_smart_edit \/ Call_edit_block

\* file paths given to the tools: in the project (an existing file f, a new
\* file n, a file g in the directory d, the directory d, a file h in a
\* directory n that does not exist), out of it through "..", and absolute
Str1(a) == <<a>>
Str3(a, b, c) == <<a, b, c>>
FilePaths ==
    {Str1("f"), Str1("e"), Str1("n"), Str1("d"), Str3("d", SLASH, "g"),
     Str3("n", SLASH, "h"),
     <<".", ".", SLASH, "o">>, <<".", ".", SLASH, "q">>,
     <<"d", SLASH, ".", ".", SLASH, ".", ".", SLASH, "o">>,
     <<".", ".", SLASH, "p", SLASH, "f">>,
     <<SLASH, "p", SLASH, "f">>, <<SLASH, "o">>, <<SLASH, "p", SLASH, "n">>}

\* the filesystems of the calls: the project directory p with a file f, an
\* empty file e and a directory d with a file g, and a file o next to the
\* project directory
FileContents == {<<"x">>, <<"a", NL, "x">>}
Filesystems ==
    {[files |-> [l \in {<< <<"p">>, <<"f">> >>, << <<"p">>, <<"e">> >>,
                        << <<"p">>, <<"d">>, <<"g">> >>, << <<"o">> >>} |->
                   IF l = << <<"p">>, <<"e">> >> THEN <<>> ELSE c],
      dirs |-> {<<>>, << <<"p">> >>, << <<"p">>, <<"d">> >>}] :
       c \in FileContents}

SearchReplaceBlock(name, search, replace) ==
    name \o <<NL>> \o HeadMarker \o <<NL>> \o search \o <<NL>>
         \o DividerMarker \o <<NL>> \o replace \o <<NL>> \o TailMarker \o <<NL>>

UnifiedDiffOf(name) ==
    <<"-", "-", "-", SP, "a", NL, "+", "+", "+", SP>> \o name
       \o <<NL, "@", "@", SP, "-", "1", SP, "+", "1", SP, "@", "@", NL,
            "-", "x", NL, "+", "y">>

SmartEditArgs(file_path, operation, function_name, pattern, new_content,
              regex_mode, confirm, edit_format) ==
    [file_path |-> file_path, operation |-> operation,
     function_name |-> function_name, pattern |-> pattern,
     new_content |-> new_content, regex_mode |-> regex_mode,
     confirm |-> confirm, edit_format |-> edit_format]

EditBlockContents ==
    {None, Some(<<>>), Some(<<"y">>),
     Some(SearchReplaceBlock(<<"f">>, <<"x">>, <<"y">>)),
     Some(UnifiedDiffOf(<<"f">>))}

EditFormats ==
    {None, Some(<<"whole_file">>), Some(<<"search_replace">>),
     Some(<<"unified_diff">>), Some(<<"bogus">>)}

SmartEditCalls ==
    UNION {
      {SmartEditArgs(p, "preview", None, None, None, FALSE, c, None),
       SmartEditArgs(p, "bogus", None, None, None, FALSE, c, None)}
      \cup {SmartEditArgs(p, "edit_block", None, None, n, FALSE, c, e) :
              n \in EditBlockContents, e \in EditFormats}
      \cup {SmartEditArgs(p, "update_function", fname, None, n, FALSE, c, None) :
              fname \in {None, Some(<<"g">>)}, n \in {None, Some(<<"y">>)}}
      \cup {SmartEditArgs(p, op, None, pat, n, re, c, None) :
              op \in {"replace", "delete"}, pat \in {None, Some(<<"x">>)},
              n \in {None, Some(<<>>), Some(<<"y">>)}, re \in BOOLEAN}
      \cup {SmartEditArgs(p, op, None, None, n, FALSE, c, None) :
              op \in {"write", "append"},
              n \in {None, Some(<<>>), Some(<<"y">>)}}
      : p \in FilePaths, c \in BOOLEAN}

BlockPaths ==
    {Str1("f"), Str1("n"), Str3("n", SLASH, "h"), <<".", ".", SLASH, "o">>,
     <<".", ".", SLASH, "q">>}

EditBlockTexts ==
    {SearchReplaceBlock(p, s, <<"y">>) :
        p \in FilePaths \cup {<<>>}, s \in {<<>>, <<"x">>, <<"z">>}}
    \cup {SearchReplaceBlock(p1, s1, <<"y">>) \o SearchReplaceBlock(p2, s2, <<"w">>) :
            p1 \in BlockPaths, p2 \in BlockPaths,
            s1 \in {<<>>, <<"x">>}, s2 \in {<<>>, <<"y">>, <<"a">>}}
    \cup {UnifiedDiffOf(p) : p \in FilePaths \cup {DevNull}}
    \cup {UnifiedDiffOf(p1) \o <<NL>> \o UnifiedDiffOf(p2) :
            p1 \in {Str1("f"), Str1("e")}, p2 \in {Str1("f"), Str1("e")}}
    \cup {<<"z">>, HeadMarker}

EditBlockCalls ==
    {[edit_content |-> t, confirm |-> c] : t \in EditBlockTexts, c \in BOOLEAN}

InitServer ==
    /\ \/ fn = "smart_edit" /\ args \in SmartEditCalls
       \/ fn = "edit_block" /\ args \in EditBlockCalls
    /\ ret = None
    /\ call_pc = "call"
    /\ \E fs \in Filesystems : files = fs.files /\ dirs = fs.dirs
    /\ io_log = {}
    /\ IdleIndent /\ IdleCascade /\ IdleDiff /\ IdleGit /\ IdleBridge

SpecServer == InitServer /\ [][NextServer]_vars

\* C17: a call of smart_edit or of edit_block with confirm=False is preview
\* only: when it returns, no file and no directory has been created, modified
\* or deleted.
C17_PreviewChangesNothing ==
    [][(call_pc' = "returned" /\ fn \in {"smart_edit", "edit_block"}
          /\ ~args.confirm)
       => (files' = files /\ dirs' = dirs)]_vars

\* C18: is_safe_path accepts a path only if the location it denotes once
\* its ".." are resolved is the project root or below it, and smart_edit and
\* edit_block read and write no file outside the project directory.
C18_AccessInsideProjectRoot ==
    /\ \A s \in FilePaths :
          is_safe_path(Path(s)) =>
             Under(PROJECT_ROOT.parts, Denotes(joinpath(PROJECT_ROOT, Path(s))))
    /\ (call_pc = "returned" /\ fn \in {"smart_edit", "edit_block"}) =>
          \A e \in io_log : Under(PROJECT_ROOT.parts, e[2])

(***************************************************************************)
(* The remote bridge: main() starts RemoteCodeMCPBridge with the token of  *)
(* --auth-token; MCPRequestHandler answers the HTTP requests one at a time *)
(* and passes them to the code-mcp subprocess through request_queue and    *)
(* the thread that writes its stdin.                                       *)
(***************************************************************************)

MaxRequests == 2

\* MCPBridgeClient._get_headers: a client that has a token sends it in its
\* Authorization header, a client without one sends no such header
get_headers(client_token) ==
    IF falsy(client_token) THEN None ELSE client_token

ClientTokens == {None, Some(<<>>), Some(<<"t">>), Some(<<"w">>)}

\* the HTTP POST requests: the path, the Content-Length header (present or
\* not), the token of the Authorization header, a body that is a JSON object
\* or not, and the method and tool name of the body
BridgeRequests ==
    {[path |-> p, content_length |-> cl, authorization |-> get_headers(ct),
      json |-> j, method |-> m] :
       p \in {"/bridge", "/other"}, cl \in BOOLEAN, ct \in ClientTokens,
       j \in BOOLEAN,
       m \in {"tools/call", "tools/list", "notifications/initialized"}}

\* main (458-475) and RemoteCodeMCPBridge.__init__ (355-365)
InitBridge ==
    /\ auth_token \in {None, Some(<<"t">>)}
    /\ process = "none"
    /\ request_queue = <<>>
    /\ forwarded = <<>>
    /\ responses = <<>>
    /\ fn = "do_POST" /\ args = <<>> /\ ret = None /\ call_pc = "listening"
    /\ IdleIndent /\ IdleCascade /\ IdleDiff /\ IdleGit /\ IdleFiles

BridgeFrame == UNCHANGED <<fn, riVars, casVars, difVars, gitVars, fsVars>>

\* the answer to the request in args: its status (0: the handler raised and
\* the connection is closed without an answer)
Answer(status) ==
    /\ responses' = Append(responses, [request |-> args, status |-> status])
    /\ ret' = [kind |-> "status", text |-> <<status>>]
    /\ call_pc' = "listening"

\* the HTTP server takes the next request
Receive ==
    /\ call_pc = "listening"
    /\ Len(responses) < MaxRequests
    /\ \E req \in BridgeRequests : args' = req
    /\ call_pc' = "do_POST"
    /\ UNCHANGED <<ret, bridgeVars>>
    /\ BridgeFrame

\* do_POST up to the call of send_request (274-302), and send_request up to
\* request_queue.put (191-219)
do_POST ==
    /\ call_pc = "do_POST"
    /\ IF ~args.content_length
       THEN Answer(0) /\ UNCHANGED <<process, request_queue>>
       ELSE IF args.path # "/bridge"
       THEN Answer(404) /\ UNCHANGED <<process, request_queue>>
       ELSE IF ~args.json
       THEN Answer(500) /\ UNCHANGED <<process, request_queue>>
       ELSE \E started \in IF process = "running" THEN {TRUE} ELSE BOOLEAN :
              IF ~started
              THEN Answer(200) /\ UNCHANGED <<process, request_queue>>
              ELSE /\ process' = "running"
                   /\ request_queue' = Append(request_queue, args)
                   /\ IF args.method = "notifications/initialized"
                      THEN Answer(200)
                      ELSE call_pc' = "send_request"
                           /\ UNCHANGED <<ret, responses>>
    /\ UNCHANGED <<args, auth_token, forwarded>>
    /\ BridgeFrame

\* _stdin_worker (101-119): the thread that writes the queued requests to the
\* stdin of the subprocess
stdin_worker ==
    /\ process = "running"
    /\ request_queue # <<>>
    /\ forwarded' = Append(forwarded, Head(request_queue))
    /\ request_queue' = Tail(request_queue)
    /\ UNCHANGED <<args, ret, call_pc, auth_token, process, responses>>
    /\ BridgeFrame

\* the subprocess exits
process_exit ==
    /\ process = "running"
    /\ process' = "exited"
    /\ UNCHANGED <<args, ret, call_pc, auth_token, request_queue, forwarded,
                   responses>>
    /\ BridgeFrame

\* the wait of send_request (221-242) and the answer of do_POST (304-318):
\* the response of the subprocess, the message that it exited, or the message
\* that the request timed out, each sent with status 200
send_request_returns ==
    /\ call_pc = "send_request"
    /\ Answer(200)
    /\ UNCHANGED <<args, auth_token, process, request_queue, forwarded>>
    /\ BridgeFrame

NextBridge ==
    \/ Receive
    \/ do_POST
    \/ stdin_worker
    \/ process_exit
    \/ send_request_returns

SpecBridge == InitBridge /\ [][NextBridge]_vars

\* the request presents the token the bridge was started with
Presents(req) == req.authorization = auth_token

\* C19: when the remote bridge is started with an authentication token, a
\* POST /bridge request that does not present that token is rejected, and it
\* is never forwarded to the code-mcp subprocess.
C19_UnauthenticatedRequestRejected ==
    auth_token # None =>
       /\ \A k \in 1..Len(forwarded) : Presents(forwarded[k])
       /\ \A k \in 1..Len(responses) :
             (responses[k].request.path = "/bridge"
                /\ ~Presents(responses[k].request))
             => responses[k].status # 200

(***************************************************************************)
(* apply_unified_diff on diffs of two hunks: a later hunk that fails       *)
(***************************************************************************)

\* two-hunk diffs whose second hunk has one body line
LaterHunkDiffs ==
    {Hunk(s1, b1) \o Hunk(s2, <<l>>) :
        s1 \in 0..MaxStart, s2 \in 0..MaxStart,
        b1 \in SeqsUpTo(HunkLineSet, MaxHunkLines2), l \in HunkLineSet}

InitDiffLater == InitDiffWith(LaterHunkDiffs \cup OddDiffs)

SpecDiffLater == InitDiffLater /\ [][NextDiff]_vars

\* the call ended at a line of a hunk: "return None" of 831 or 843, or an
\* IndexError
FailedInHunk == diff_pc = "done" /\ hunk_pos \in 1..Len(hunk_lines)

\* C20, as the code has it: when an earlier hunk was applied and a line of a
\* later hunk fails verification, apply_unified_diff returns None (or raises
\* IndexError when the comparison is out of range); the output buffer with
\* the earlier hunk's edits is not returned.
C20_LaterHunkFailureReturnsNone ==
    (FailedInHunk /\ hunks_done >= 1) =>
       /\ diff_result \in {None, Raised}
       /\ (LineCheck = "differs" => diff_result = None)

\* an earlier hunk changed the buffer, a line of the later hunk does not
\* match, and the call returned None
C20_Witness ==
    /\ FailedInHunk /\ hunks_done >= 1
    /\ result_lines # original_lines
    /\ LineCheck = "differs"
    /\ diff_result = None

\* C20, as stated: when an earlier hunk was applied and a later hunk fails
\* verification, the value returned is the output buffer that still has the
\* earlier hunk's edits.
C20_PartialBufferReturned ==
    (FailedInHunk /\ hunks_done >= 1) =>
       diff_result = Some(str_join(<<NL>>, result_lines))

(***************************************************************************)
(* The search space of fuzzy_search_and_replace: the window lengths and    *)
(* the window kept when several have the greatest ratio.                   *)
(***************************************************************************)

\* the lengths of the windows the two loops visit
examined_lengths(n_search, n_original) ==
    LET windows == fuzzy_windows(n_search, n_original)
    IN { windows[k][2] : k \in DOMAIN windows }

\* C21: the window lengths examined are exactly the integers from
\* max(1, floor(0.9 n)) to min(m, ceil(1.1 n)), n the number of search lines
\* and m the number of original lines.
C21_LengthsFromFloorToCeil ==
    Returned("fuzzy_search_and_replace") =>
       LET n == Len(splitlines(args[1]))
           m == Len(splitlines(args[3]))
       IN examined_lengths(n, m)
            = Max(1, (9 * n) \div 10) .. Min(m, (11 * n + 9) \div 10)

\* the lines of original with those of window w = <<first, last>> replaced
Spliced(original_ls, w, replace) ==
    Some(str_join(<<NL>>,
           SubSeq(original_ls, 1, w[1] - 1)
           \o splitlines(replace)
           \o SubSeq(original_ls, w[2] + 1, Len(original_ls))))

\* the window of ws that is least by key, a pair of integers
LeastBy(ws, key(_)) ==
    CHOOSE w \in ws : \A v \in ws :
       \/ key(w)[1] < key(v)[1]
       \/ key(w)[1] = key(v)[1] /\ key(w)[2] <= key(v)[2]

\* shortest first, then smallest start: the order of the two loops
ScanOrder(w) == <<w[2] - w[1], w[1]>>

\* smallest start first, then shortest
StartOrder(w) == <<w[1], w[2] - w[1]>>

\* the call found a window of a positive ratio at or above the threshold
FuzzyMatched ==
    /\ Returned("fuzzy_search_and_replace")
    /\ LET original_ls == splitlines(args[3])
           best == BestWindows(args[1], original_ls)
       IN /\ best # {}
          /\ \A w \in best :
                /\ RatioLess(<<0, 1>>, WindowRatio(args[1], original_ls, w))
                /\ ~RatioLess(WindowRatio(args[1], original_ls, w), args[4])

\* C22 (as the code has it): when several windows share the greatest ratio,
\* the window replaced is the shortest of them, and among the shortest the
\* one with the smallest start.
C22_TieShortestThenSmallestStart ==
    FuzzyMatched =>
       LET original_ls == splitlines(args[3])
       IN ret = Spliced(original_ls,
                        LeastBy(BestWindows(args[1], original_ls), ScanOrder),
                        args[2])

\* a matched call where the two orders choose different windows and the
\* two replacements differ
C22_Witness ==
    /\ FuzzyMatched
    /\ LET original_ls == splitlines(args[3])
           best == BestWindows(args[1], original_ls)
       IN /\ LeastBy(best, ScanOrder) # LeastBy(best, StartOrder)
          /\ ret = Spliced(original_ls, LeastBy(best, ScanOrder), args[2])
          /\ ret # Spliced(original_ls, LeastBy(best, StartOrder), args[2])

\* C22 as stated: when several windows share the greatest ratio, the window
\* replaced is the one with the smallest start, and among those with that
\* start the one with the smallest length.
C22_TieSmallestStartThenShortest ==
    FuzzyMatched =>
       LET original_ls == splitlines(args[3])
       IN ret = Spliced(original_ls,
                        LeastBy(BestWindows(args[1], original_ls), StartOrder),
                        args[2])

(***************************************************************************)
(* The order of the sub-strategies of apply_comprehensive_preprocessing    *)
(* and which of them gives the function its result.                        *)
(***************************************************************************)

\* the sub-strategy tried j-th reported a match: it returned a text
SubMatched(j) == sub_tried[j].outcome = "match"

\* C23: the sub-strategies are tried in the order 1..7 (blank-line strip,
\* whitespace normalize, indentation alignment, relative indentation, relative
\* + blank strip, relative + whitespace normalize, all combined), and the
\* first that reports a match ends the loop and gives the result: nothing is
\* tried after it and no other result is returned.
C23_FirstMatchingSubStrategyWins ==
    /\ \A j \in 1..Len(sub_tried) : sub_tried[j].k = j
    /\ \A j \in 1..Len(sub_tried) :
          SubMatched(j) =>
             /\ j = Len(sub_tried)
             /\ pc = "done"
             /\ result = sub_strategy(j, search_text, replace_text, original_text)

\* C23 for the results the loop's test "if result:" accepts: the
\* sub-strategies are tried in the order 1..7, and the first that returns a
\* text that is not empty ends the loop and gives the result.
C23_FirstNonEmptyResultWins ==
    /\ \A j \in 1..Len(sub_tried) : sub_tried[j].k = j
    /\ \A j \in 1..Len(sub_tried) :
          Truthy(sub_strategy(j, search_text, replace_text, original_text)) =>
             /\ j = Len(sub_tried)
             /\ pc = "done"
             /\ result = sub_strategy(j, search_text, replace_text, original_text)

(***************************************************************************)
(* make_relative on a block and on the same block nested deeper            *)
(***************************************************************************)

\* the greatest number of spaces a block is moved to the right
MaxShift == 2

\* the line, without its end, has a character that is not white space
NonBlank(line) == str_strip(DropLineEnd(line)) # <<>>

\* every blank line of the text is empty
BlankLinesEmpty(text) ==
    LET lines == splitlines_keepends(text)
    IN \A j \in 1..Len(lines) : NonBlank(lines[j]) \/ DropLineEnd(lines[j]) = <<>>

\* the text with every non-blank line indented by k more spaces
IndentedDeeper(text, k) ==
    LET lines == splitlines_keepends(text)
    IN Concat([j \in 1..Len(lines) |->
                 IF NonBlank(lines[j]) THEN Repeat(SP, k) \o lines[j]
                 ELSE lines[j]])

\* make_relative has encoded a block that begins with a non-blank line and
\* whose blank lines are empty
EncodedBlock ==
    /\ ri_pc \in {"relative", "absolute"}
    /\ ri_text # <<>>
    /\ NonBlank(splitlines_keepends(ri_text)[1])
    /\ BlankLinesEmpty(ri_text)

\* C24: for a marker-free block B and k >= 1, B' being B with every non-blank
\* line indented by k more spaces and the blank lines left empty,
\* make_relative(B') is make_relative(B) with the k spaces added to the first
\* prefix line and nothing else changed.
C24_DeeperBlockEncodesAlike ==
    EncodedBlock =>
       \A k \in 1..MaxShift :
          make_relative(ri_marker, IndentedDeeper(ri_text, k)) = Repeat(SP, k) \o ri_rel

\* the same for the blocks that have no blank line
C24_WithoutBlankLines ==
    EncodedBlock /\ (\A j \in 1..Len(splitlines_keepends(ri_text)) :
                        NonBlank(splitlines_keepends(ri_text)[j])) =>
       \A k \in 1..MaxShift :
          make_relative(ri_marker, IndentedDeeper(ri_text, k)) = Repeat(SP, k) \o ri_rel

(***************************************************************************)
(* process_edit_blocks: the blocks of one content applied to a dict of     *)
(* file contents.  A dict is the sequence of its <<key, value>> pairs.     *)
(***************************************************************************)

\* filename in d
has_key(d, filename) == \E k \in 1..Len(d) : d[k][1] = filename

\* d[filename]
get(d, filename) == d[CHOOSE k \in 1..Len(d) : d[k][1] = filename][2]

\* what the function called on an entry may return: for a search/replace
\* block flexible_search_and_replace (872), for a diff apply_unified_diff (882)
block_results(format, entry, file_content) ==
    IF format = "search_replace"
    THEN flexible_search_and_replace(entry[2], entry[3], file_content)
    ELSE EditResults

\* the loops of process_edit_blocks over the entries from the i-th on (869-875
\* and 879-884): every entry reads original_file_content, and a result that is
\* truthy is stored in updated_content
RECURSIVE process_loop(_, _, _, _, _)
process_loop(format, entries, i, original_file_content, updated_content) ==
    IF i > Len(entries) THEN {updated_content}
    ELSE LET filename == entries[i][1]
         IN IF ~has_key(original_file_content, filename)
            THEN process_loop(format, entries, i + 1, original_file_content,
                              updated_content)
            ELSE UNION {
                   process_loop(format, entries, i + 1, original_file_content,
                                IF falsy(new_content) THEN updated_content
                                ELSE put(updated_content, filename, new_content.text)) :
                   new_content \in block_results(format, entries[i],
                                     get(original_file_content, filename)) }

\* process_edit_blocks(content, original_file_content): the dicts it may
\* return
process_edit_blocks(content, original_file_content) ==
    UNION {
      process_loop("unified_diff", parse_unified_diff(content), 1,
                   original_file_content, updated) :
      updated \in process_loop("search_replace",
                               parse_search_replace_blocks(content), 1,
                               original_file_content, original_file_content) }

Call_process_edit_blocks ==
    \E r \in process_edit_blocks(args[1], args[2]) :
       Returns("process_edit_blocks", r)

\* the contents: one or two search/replace blocks for the files f, g and n,
\* or a unified diff
ProcessSearches == {<<"x">>, <<"a">>, <<"y">>, <<"a", NL, "x">>}
ProcessReplaces == {<<>>, <<"y">>, <<"w">>}
ProcessNames == {Str1("f"), Str1("g"), Str1("n")}

ProcessContents ==
    LET one == {SearchReplaceBlock(p, s, r) :
                  p \in ProcessNames, s \in ProcessSearches, r \in ProcessReplaces}
    IN one
       \cup {b1 \o b2 : b1 \in one, b2 \in one}
       \cup {UnifiedDiffOf(p) : p \in ProcessNames}

\* the dicts: the file f, or the files f and g, with the same content
ProcessDicts ==
    UNION { { << <<Str1("f"), c>> >>, << <<Str1("f"), c>>, <<Str1("g"), c>> >> } :
            c \in FileContents }

InitProcess ==
    InitCall("process_edit_blocks",
             {<<c, d>> : c \in ProcessContents, d \in ProcessDicts})

SpecProcess == InitProcess /\ [][Call_process_edit_blocks]_vars

\* the blocks from the i-th on that name the file applied one after the
\* other, each to the text the one before it produced, while the search of
\* each occurs verbatim in that text and the text it gives is not empty; None
\* when a block is not of that kind
RECURSIVE Cumulative(_, _, _, _)
Cumulative(entries, i, filename, text) ==
    IF i > Len(entries) THEN Some(text)
    ELSE IF entries[i][1] # filename
         THEN Cumulative(entries, i + 1, filename, text)
    ELSE LET r == search_and_replace(entries[i][2], entries[i][3], text)
         IN IF ~Truthy(r) THEN None
            ELSE Cumulative(entries, i + 1, filename, r.text)

\* the number of entries that name the file
BlocksNaming(entries, filename) ==
    Cardinality({k \in 1..Len(entries) : entries[k][1] = filename})

\* C25: when the content holds two or more blocks that name the same file,
\* the blocks are applied one after the other, the second to the text the
\* first produced, and the content recorded for the file is the text after
\* the last: the edit of no block that matched is lost.
C25_BlocksAppliedCumulatively ==
    Returned("process_edit_blocks") =>
       LET entries == parse_search_replace_blocks(args[1])
       IN \A k \in 1..Len(args[2]) :
             LET filename == args[2][k][1]
                 expected == Cumulative(entries, 1, filename, args[2][k][2])
             IN BlocksNaming(entries, filename) >= 2 /\ expected # None =>
                   get(ret, filename) = expected.text

\* the same for the edit_block tool: when it has written the files of a
\* content whose blocks all name one file of the project, the file holds the
\* text after the last block
C25_EditBlockWritesCumulative ==
    [][(call_pc' = "returned" /\ fn = "edit_block" /\ ret'.kind = "done") =>
          LET entries == parse_search_replace_blocks(args.edit_content)
              loc == Denotes(joinpath(PROJECT_ROOT, Path(Str1("f"))))
              expected == Cumulative(entries, 1, Str1("f"), files[loc])
          IN BlocksNaming(entries, Str1("f")) = Len(entries)
             /\ Len(entries) >= 2 /\ expected # None =>
                files'[loc] = expected.text]_vars

\* the content is one search/replace block for a file of the dict, and the
\* exact replacement of its search in that file gives the empty text
EmptiesFile(content, d, filename) ==
    LET entries == parse_search_replace_blocks(content)
    IN /\ Len(entries) = 1
       /\ entries[1][1] = filename
       /\ has_key(d, filename)
       /\ search_and_replace(entries[1][2], entries[1][3], get(d, filename))
            = Some(<<>>)

\* C26: an edit that succeeds and whose resulting text is empty (the search is
\* the whole file and the replace is empty) is a success and not NoMatch:
\* process_edit_blocks records the empty text for the file.
C26_EmptyResultIsSuccess ==
    Returned("process_edit_blocks") =>
       \A k \in 1..Len(args[2]) :
          EmptiesFile(args[1], args[2], args[2][k][1]) =>
             get(ret, args[2][k][1]) = <<>>

(***************************************************************************)
(* generate_diff, and the round trip generate_diff, parse_unified_diff,    *)
(* apply_unified_diff.  difflib.unified_diff is modelled for texts of at   *)
(* most context_lines = 3 lines: no run of equal lines is longer than the  *)
(* context, so the opcodes make one group that holds every line.           *)
(***************************************************************************)

\* the lines, each with the prefix before it
Prefixed(prefix, lines) == [k \in 1..Len(lines) |-> <<prefix>> \o lines[k]]

RECURSIVE unified_body(_, _, _, _, _, _)
\* the body lines that unified_diff yields for the opcodes of a[alo:ahi] and
\* b[blo:bhi]: around the longest matching block, the lines of a that go and
\* then the lines of b that come where nothing matches
unified_body(a, b, alo, ahi, blo, bhi) ==
    LET m == find_longest_match(a, b, alo, ahi, blo, bhi)
    IN IF m.size = 0
       THEN Prefixed("-", SubSeq(a, alo + 1, ahi))
            \o Prefixed("+", SubSeq(b, blo + 1, bhi))
       ELSE unified_body(a, b, alo, m.i, blo, m.j)
            \o Prefixed(SP, SubSeq(a, m.i + 1, m.i + m.size))
            \o unified_body(a, b, m.i + m.size, ahi, m.j + m.size, bhi)

\* difflib._format_range_unified(start, stop)
format_range_unified(start, stop) ==
    LET beginning == start + 1
        length == stop - start
    IN IF length = 1 THEN str(beginning)
       ELSE IF length = 0 THEN str(beginning - 1) \o <<",">> \o str(length)
       ELSE str(beginning) \o <<",">> \o str(length)

\* generate_diff(original, updated, filename): fromfile is "--- " + filename
\* and tofile is "+++ " + filename, and unified_diff puts "--- " and "+++ "
\* before them; no line at all when the lines of the two texts are the same
generate_diff(original, updated, filename) ==
    LET original_ls == splitlines(original)
        updated_ls == splitlines(updated)
    IN IF original_ls = updated_ls THEN <<>>
       ELSE str_join(<<NL>>,
              << <<"-", "-", "-", SP>> \o <<"-", "-", "-", SP>> \o filename,
                 <<"+", "+", "+", SP>> \o <<"+", "+", "+", SP>> \o filename,
                 <<"@", "@", SP, "-">>
                    \o format_range_unified(0, Len(original_ls))
                    \o <<SP, "+">>
                    \o format_range_unified(0, Len(updated_ls))
                    \o <<SP, "@", "@">> >>
              \o unified_body(original_ls, updated_ls,
                              0, Len(original_ls), 0, Len(updated_ls)))

\* the greatest number of lines of the texts given to generate_diff
MaxGenLines == 3

\* the texts: lines a, b and the empty line, with or without a last newline
GenTexts ==
    {str_join(<<NL>>, ls) \o e :
        ls \in SeqsUpTo({<<"a">>, <<"b">>, <<>>}, MaxGenLines), e \in {<<>>, <<NL>>}}

\* original, updated and filename: two texts that differ
RoundTripArgs ==
    {<<o, u, f>> : o \in GenTexts, u \in GenTexts, f \in {Str1("f"), Str3("d", SLASH, "g")}}
    \ {<<o, o, f>> : o \in GenTexts, f \in {Str1("f"), Str3("d", SLASH, "g")}}

InitRoundTrip == InitCall("generate_diff", RoundTripArgs)

Call_generate_diff ==
    \E r \in {generate_diff(args[1], args[2], args[3])} :
       Returns("generate_diff", Some(r))

\* parse_unified_diff is called on the diff that generate_diff returned
ParseGenerated ==
    /\ fn = "generate_diff"
    /\ call_pc = "returned"
    /\ \E r \in {parse_unified_diff(ret.text)} : ret' = r
    /\ call_pc' = "parsed"
    /\ UNCHANGED <<fn, args, riVars, casVars, difVars, gitVars, fsVars, bridgeVars>>

\* apply_unified_diff is called on original and the lines of the first entry
ApplyParsed ==
    /\ fn = "generate_diff"
    /\ call_pc = "parsed"
    /\ Len(ret) >= 1
    /\ original_content' = args[1]
    /\ diff_lines' = ret[1][2]
    /\ result_lines' = splitlines(args[1])
    /\ current_line' = 0
    /\ hunk_lines' = <<>> /\ hunk_pos' = 0 /\ hunks_done' = 0
    /\ current_orig_line' = 0 /\ line_offset' = 0
    /\ diff_pc' = "scan" /\ diff_result' = None
    /\ call_pc' = "applying"
    /\ UNCHANGED <<fn, args, ret, riVars, casVars, gitVars, fsVars, bridgeVars>>

\* the lines of a generated diff all have one of the three prefixes and its
\* first line is the hunk header, so the loop of apply_unified_diff passes
\* over no line
NextRoundTrip ==
    \/ Call_generate_diff
    \/ ParseGenerated
    \/ ApplyParsed
    \/ OpenHunk
    \/ ContextLine
    \/ RemovalLine
    \/ AdditionLine
    \/ CloseHunk
    \/ ReturnDiff

SpecRoundTrip == InitRoundTrip /\ [][NextRoundTrip]_vars

\* C27: for original and updated texts that differ and a filename f,
\* parse_unified_diff(generate_diff(original, updated, f)) has exactly one
\* entry, its filename is f, and apply_unified_diff(original, its lines)
\* returns a text whose lines are the lines of updated.
C27_GenerateParseApplyRoundTrip ==
    /\ (fn = "generate_diff" /\ call_pc \in {"parsed", "applying"}) =>
          Len(ret) = 1 /\ ret[1][1] = args[3]
    /\ (fn = "generate_diff" /\ call_pc = "applying" /\ diff_pc = "done") =>
          /\ diff_result.kind = "match"
          /\ splitlines(diff_result.text) = splitlines(args[2])

\* the part of C27 about the text: when there is an entry, applying its lines
\* to original gives the lines of updated
RoundTripOfLines ==
    (fn = "generate_diff" /\ call_pc = "applying" /\ diff_pc = "done") =>
       /\ diff_result.kind = "match"
       /\ splitlines(diff_result.text) = splitlines(args[2])

(***************************************************************************)
(* The addition lines of a hunk in the result of apply_unified_diff        *)
(***************************************************************************)

RECURSIVE AdditionRuns(_, _)
\* the runs of consecutive addition lines of a hunk body, each the sequence
\* of the texts added; run is the run that the lines read so far have begun
AdditionRuns(body, run) ==
    IF body = <<>> THEN (IF run = <<>> THEN {} ELSE {run})
    ELSE IF Head(body) # <<>> /\ Head(body)[1] = "+"
         THEN AdditionRuns(Tail(body), Append(run, Tail(Head(body))))
    ELSE (IF run = <<>> THEN {} ELSE {run}) \cup AdditionRuns(Tail(body), <<>>)

\* the lines of run stand in lines one after the other, in their order
ContiguousIn(run, lines) ==
    \E p \in 0..(Len(lines) - Len(run)) : SubSeq(lines, p + 1, p + Len(run)) = run

\* apply_unified_diff has applied a diff of one hunk and returned a text
OneHunkApplied ==
    /\ diff_pc = "done"
    /\ diff_result.kind = "match"
    /\ Len(HunksOf(diff_lines)) = 1

\* C28: the consecutive addition lines of a hunk appear in the result one
\* after the other and in the order they have in the hunk, for every start of
\* the header, 0 included: a hunk of additions only with start 0 applied to
\* an empty original gives exactly the added lines in order.
C28_AdditionsInHunkOrder ==
    OneHunkApplied =>
       LET h == HunksOf(diff_lines)[1]
       IN /\ \A run \in AdditionRuns(h.body, <<>>) : ContiguousIn(run, result_lines)
          /\ (h.start = 0 /\ original_lines = <<>>
                /\ CountPrefix(h.body, {"+"}) = Len(h.body)) =>
                result_lines = BodyTexts(h.body, {"+"})

\* the same for the hunks whose header has a start of 1 or more
AdditionsInOrderFromStartOne ==
    OneHunkApplied /\ HunksOf(diff_lines)[1].start >= 1 =>
       \A run \in AdditionRuns(HunksOf(diff_lines)[1].body, <<>>) :
          ContiguousIn(run, result_lines)

(***************************************************************************)
(* The segments of try_dotdotdots, each replaced where it stands in        *)
(* original                                                                *)
(***************************************************************************)

\* the edits of the literal segments: for each search piece that is not
\* blank, the place of its first occurrence in original, its length and the
\* replace piece that goes with it
SegmentEdits(search, replace, original) ==
    LET search_pieces == dots_split(search)
        replace_pieces == dots_split(replace)
    IN { [at |-> Find(search_pieces[i], original, 1),
          len |-> Len(search_pieces[i]),
          new |-> replace_pieces[i]] :
         i \in {k \in 1..Len(search_pieces) :
                  k % 2 = 1 /\ str_strip(search_pieces[k]) # <<>>} }

\* every segment occurs in original, and no two first occurrences overlap
SegmentsApart(edits) ==
    /\ \A e \in edits : e.at > 0
    /\ \A e1 \in edits : \A e2 \in edits :
          e1 = e2 \/ e1.at + e1.len <= e2.at \/ e2.at + e2.len <= e1.at

RECURSIVE ApplyEdits(_, _)
\* the text with every edit made at its own place, the rightmost first
ApplyEdits(text, edits) ==
    IF edits = {} THEN text
    ELSE LET e == CHOOSE x \in edits : \A y \in edits : y.at <= x.at
         IN ApplyEdits(Take(text, e.at - 1) \o e.new \o Drop(text, e.at - 1 + e.len),
                       edits \ {e})

\* try_dotdotdots gave the cascade its result, for a search and a replace of
\* as many pieces whose segments stand apart in original
SegmentsReplaced ==
    /\ pc = "done"
    /\ tried # <<>>
    /\ Last(tried).name = "try_dotdotdots"
    /\ Last(tried).outcome = "match"
    /\ Cardinality(SegmentEdits(search_text, replace_text, original_text)) >= 2
    /\ SegmentsApart(SegmentEdits(search_text, replace_text, original_text))

\* C29: try_dotdotdots replaces each literal segment independently of the
\* others: the result is original with the first occurrence in original of
\* each segment replaced by its replace segment, and no replacement touches
\* text that an earlier replacement inserted.
C29_SegmentsReplacedInOriginal ==
    SegmentsReplaced =>
       result = Some(ApplyEdits(original_text,
                        SegmentEdits(search_text, replace_text, original_text)))

(***************************************************************************)
(* edit_block across the blocks of one content                             *)
(***************************************************************************)

\* what the loops of edit_block may collect for the call a, when the format
\* is detected and the content has entries
Collected(a, f, d) ==
    LET format_type ==
            IF Contains(HeadMarker, a.edit_content) THEN "search_replace"
            ELSE IF /\ OccursAt(<<"-", "-", "-">>, a.edit_content, 1)
                    /\ Contains(<<"+", "+", "+", SP>>, a.edit_content)
                 THEN "unified_diff"
            ELSE "unknown"
        entries ==
            IF format_type = "search_replace"
            THEN parse_search_replace_blocks(a.edit_content)
            ELSE parse_unified_diff(a.edit_content)
    IN IF format_type = "unknown" \/ entries = <<>> THEN {}
       ELSE collect(format_type, entries, 1, <<>>, {}, f, d)

\* a block failed: the loops stopped at an entry (unsafe path, missing file,
\* pattern not found, diff not applicable), or the application of an entry
\* gave None and the loops went on
BlockFailed(c) ==
    \/ ~c.ok
    \/ \E k \in 1..Len(c.edits) : c.edits[k][2] = None

\* C30: edit_block is all-or-nothing across the blocks: if a block fails the
\* tool gives an error (an exception out of the tool counted as one) and no
\* file and no directory has been written; files are written only when every
\* block succeeded and confirm is true.
C30_AllOrNothing ==
    [][(call_pc' = "returned" /\ fn = "edit_block") =>
          \A c \in Collected(args, files, dirs) :
             finish(args, c, files, dirs)
                = [ret |-> ret', files |-> files', dirs |-> dirs', io |-> io_log']
             => /\ BlockFailed(c) =>
                      /\ ret'.kind \in {"error", "raise"}
                      /\ files' = files /\ dirs' = dirs
                /\ (files' # files \/ dirs' # dirs) =>
                      ~BlockFailed(c) /\ args.confirm]_vars

\* the same for the blocks that fail inside the loops, where the tool
\* returns its error
StoppedBlockWritesNothing ==
    [][(call_pc' = "returned" /\ fn = "edit_block") =>
          \A c \in Collected(args, files, dirs) :
             (~c.ok /\ finish(args, c, files, dirs)
                = [ret |-> ret', files |-> files', dirs |-> dirs', io |-> io_log'])
             => ret'.kind = "error" /\ files' = files /\ dirs' = dirs]_vars

====
